---- MODULE Spec2Model ----
(***************************************************************************)
(* A model of htex (github.com/dacap/htex): the tokenizer                  *)
(* (splitHtexTokens) driven by a bufio.Scanner, the parser                 *)
(* (parseHtexScanner / parseHtexFile), and the renderer (writeHtexFile).   *)
(*                                                                         *)
(* A byte is a string of length one and a byte string is a sequence of     *)
(* bytes; Go's 0-based index i is position i+1 of the sequence.            *)
(***************************************************************************)
EXTENDS Integers, Sequences, FiniteSets, TLC

VARIABLES
    fs,         \* the content root: path -> bytes of the file
    tmpl,       \* how the files of fs were put together (fragments), per path
    keep,       \* Htex.KeepComments
    req,        \* the http.Request: method, query, form
    target,     \* the file the router chose for the request (fn of ServeHTTP)
    pc,         \* where the handling of the request stands
    pstack,     \* the active calls of parseHtexScanner, innermost last
    rstack,     \* the active walks of writeHtexFile, innermost last
    hfTop,      \* what parseHtexFile returned for the requested file: <<>> or <<hf>>
    out,        \* the bytes written to the ResponseWriter
    status,     \* the status code of the response
    hdr,        \* the Content-Type header of the response
    chunk,      \* the most bytes one Read of a file delivers, 0 for all of it
    noread,     \* the files of fs that os.Stat shows and that do not open
    walk,       \* filepath.Walk under way: who walks, the tree, what is left of it
    calls,      \* what the walk has done per file so far, in order
    logw,       \* the field w of the LogHtexHandler: the writer it wraps, the code
    logged      \* the response code the LogHtexHandler has logged, per request

vars == <<fs, tmpl, keep, req, target, pc, pstack, rstack, hfTop, out, status, hdr, chunk,
          noread, walk, calls, logw, logged>>

----------------------------------------------------------------------------
(* Bytes and byte strings                                                  *)

UpperLetters == <<"A","B","C","D","E","F","G","H","I","J","K","L","M",
                  "N","O","P","Q","R","S","T","U","V","W","X","Y","Z">>
LowerLetters == <<"a","b","c","d","e","f","g","h","i","j","k","l","m",
                  "n","o","p","q","r","s","t","u","v","w","x","y","z">>

\* strings.ToLower / the folding of bytes.EqualFold, on one ASCII byte
LowerByte(c) ==
    IF \E k \in 1..26 : UpperLetters[k] = c
    THEN LowerLetters[CHOOSE k \in 1..26 : UpperLetters[k] = c]
    ELSE c

ToLower(s) == [k \in 1..Len(s) |-> LowerByte(s[k])]

\* data[a:b] of Go (0-based, b exclusive), for 0 <= a <= b <= len(data)
Slice(data, a, b) == SubSeq(data, a + 1, b)

HasPrefix(s, p) == Len(s) >= Len(p) /\ SubSeq(s, 1, Len(p)) = p

RECURSIVE Concat(_)
Concat(ss) == IF ss = <<>> THEN <<>> ELSE Head(ss) \o Concat(Tail(ss))

IsSpace(c) == c = " " \/ c = "\r" \/ c = "\n"

W_doctype == <<"d","o","c","t","y","p","e">>

----------------------------------------------------------------------------
(* The tokenizer: the closure returned by splitHtexTokens.  Its captured   *)
(* variables are the record tz; one call is                                *)
(* splitHtexTokens(tz, data, atEOF, k),                                    *)
(* which gives the advance, the token (nil or not), the error and the new  *)
(* captured variables.                                                     *)

\* the tokenizer as it would be with insideHtexElem starting true
TzInit_insideElem == [insideHtexElem |-> TRUE, insideComment |-> FALSE,
                      closingHtexElem |-> FALSE]

TzInit == [insideHtexElem |-> FALSE, insideComment |-> FALSE,
           closingHtexElem |-> FALSE]

SplitRet(adv, tok, isNil, err, tz) ==
    [advance |-> adv, token |-> tok, isNil |-> isNil, err |-> err, tz |-> tz]

\* the loop below as it would be with "i++" never run
SkipToCommentEnd_noLoop(data, i) == i

\* the index at which the loop "for ; i+3 < len(data) && (data[i] != '-' ||
\* data[i+1] != '-' || data[i+2] != '>'); i++ {}" stops
SkipToCommentEnd(data, i) ==
    LET S == {j \in i..Len(data) :
                 ~(/\ j + 3 < Len(data)
                   /\ (data[j+1] # "-" \/ data[j+2] # "-" \/ data[j+3] # ">"))}
    IN  IF S = {} THEN i ELSE CHOOSE j \in S : \A m \in S : j <= m

\* the index at which "for ; i < len(data) && (data[i] is a space); i++ {}" stops
RECURSIVE SkipSpaces(_, _)
SkipSpaces(data, i) ==
    IF i < Len(data) /\ IsSpace(data[i+1]) THEN SkipSpaces(data, i + 1) ELSE i

\* the j at which "for j = 0; j < len(data); j++" stops: the first ' ' or '>'
RECURSIVE TagNameEnd(_, _)
TagNameEnd(data, j) ==
    IF j < Len(data) /\ data[j+1] # " " /\ data[j+1] # ">"
    THEN TagNameEnd(data, j + 1)
    ELSE j

\* bytes.EqualFold(data[i+2:i+9], []byte("doctype")).  The slice may reach
\* past len(data) into the zeroed rest of the Scanner's buffer, which never
\* equals a letter.
\* the test as it would be with bytes.Equal for bytes.EqualFold
DoctypeAt_caseSensitive(data, i) ==
    /\ i + 9 <= Len(data)
    /\ Slice(data, i + 2, i + 9) = W_doctype

DoctypeAt(data, i) ==
    /\ i + 9 <= Len(data)
    /\ ToLower(Slice(data, i + 2, i + 9)) = W_doctype

\* whether the body of "for i := 0; i < len(data); i++" does more at index
\* i than go on to i+1: one of its "if"s is taken
SplitStops(tz, data, k, i) ==
    \/ tz.insideHtexElem /\ (IsSpace(data[i+1]) \/ data[i+1] = ">")
    \/ ~tz.insideHtexElem /\ tz.insideComment /\ ~k
    \/ /\ i + 2 < Len(data) /\ data[i+1] = "<" /\ data[i+2] = "!"
       /\ ~DoctypeAt(data, i)

\* the first index from i on at which the loop does so, len(data) if none
NextStop(tz, data, k, i) ==
    LET S == {j \in i..(Len(data) - 1) : SplitStops(tz, data, k, j)}
    IN  IF S = {} THEN (IF i > Len(data) THEN i ELSE Len(data))
        ELSE CHOOSE j \in S : \A m \in S : j <= m

\* the loop from index i on, i being where NextStop has brought it
RECURSIVE SplitLoop(_, _, _, _, _)
SplitAt(tz, data, atEOF, k, i) ==
    IF i >= Len(data)
    THEN IF ~atEOF
         THEN SplitRet(0, <<>>, TRUE, "nil", tz)
         ELSE SplitRet(0, data, FALSE, "final", tz)
    ELSE
    IF tz.insideHtexElem /\ IsSpace(data[i+1])
    THEN SplitRet(SkipSpaces(data, i), Slice(data, 0, i), FALSE, "nil", tz)
    ELSE IF tz.insideHtexElem /\ data[i+1] = ">"
    THEN SplitRet(i, Slice(data, 0, i), FALSE, "nil",
                  [tz EXCEPT !.insideHtexElem = FALSE, !.closingHtexElem = TRUE])
    ELSE IF ~tz.insideHtexElem /\ tz.insideComment /\ ~k
    THEN LET e == SkipToCommentEnd(data, i) + 3
         IN  IF e > Len(data)
             THEN SplitRet(e, data, FALSE, "nil", [tz EXCEPT !.insideComment = FALSE])
             ELSE SplitRet(e, Slice(data, 0, e), FALSE, "nil",
                           [tz EXCEPT !.insideComment = FALSE])
    ELSE IF i + 2 < Len(data) /\ data[i+1] = "<" /\ data[i+2] = "!"
            /\ ~DoctypeAt(data, i)
    THEN IF data[i+3] = "-" /\ i + 3 >= Len(data)
         THEN \* data[i+3]: index out of range, a run-time panic
              SplitRet(0, <<>>, TRUE, "panic", tz)
         ELSE IF data[i+3] = "-" /\ data[i+4] = "-"
         THEN IF k
              THEN SplitLoop(tz, data, atEOF, k, SkipToCommentEnd(data, i) + 3)
              ELSE SplitRet(i, Slice(data, 0, i), FALSE, "nil",
                            [tz EXCEPT !.insideComment = TRUE])
         ELSE IF i > 0
              THEN SplitRet(i, Slice(data, 0, i), FALSE, "nil",
                            [tz EXCEPT !.insideHtexElem = TRUE])
              ELSE LET j == TagNameEnd(data, 0)
                   IN  IF j >= Len(data)
                       THEN SplitRet(Len(data), data, FALSE, "nil",
                                     [tz EXCEPT !.insideHtexElem = TRUE])
                       ELSE IF data[j+1] = " "
                       THEN SplitRet(j + 1, Slice(data, 0, j), FALSE, "nil",
                                     [tz EXCEPT !.insideHtexElem = TRUE])
                       ELSE SplitRet(j, Slice(data, 0, j), FALSE, "nil",
                                     [tz EXCEPT !.insideHtexElem = TRUE,
                                                !.closingHtexElem = TRUE])
    ELSE SplitLoop(tz, data, atEOF, k, i + 1)

SplitLoop(tz, data, atEOF, k, i) == SplitAt(tz, data, atEOF, k, NextStop(tz, data, k, i))

splitHtexTokens(tz, data, atEOF, k) ==
    IF tz.closingHtexElem
    THEN IF data = <<>>
         THEN \* data[0:1] of an empty buffer: a byte past its end
              SplitRet(1, <<"NUL">>, FALSE, "nil", [tz EXCEPT !.closingHtexElem = FALSE])
         ELSE SplitRet(1, Slice(data, 0, 1), FALSE, "nil",
                       [tz EXCEPT !.closingHtexElem = FALSE])
    ELSE SplitLoop(tz, data, atEOF, k, 0)

----------------------------------------------------------------------------
(* bufio.Scanner over the opened file.  A file that fits the Scanner's     *)
(* initial buffer is delivered whole by the first Read and the second      *)
(* answers io.EOF; a longer file, or a reader that answers short, comes in *)
(* pieces.  start and end are the Scanner's s.start and s.end, eof is      *)
(* "s.err != nil", token is what scanner.Text() answers, chunk is the most *)
(* bytes a Read of its reader delivers (0: all there is).  The buffer is   *)
(* taken to be long enough never to be shifted or grown.                   *)

ScInit == [start |-> 0, end |-> 0, eof |-> FALSE, done |-> FALSE,
           token |-> <<>>, tz |-> TzInit, panicked |-> FALSE, chunk |-> 0]

\* bufio.NewScanner over a reader that delivers at most c bytes a Read
ScOver(c) == [ScInit EXCEPT !.chunk = c]

\* the number of bytes one Read of the file delivers, of n still unread
ReadLen(n, c) == IF c = 0 \/ n <= c THEN n ELSE c

\* "Must read more data": one Read of the file
AfterRead(sc, content) ==
    IF sc.end < Len(content)
    THEN [sc EXCEPT !.end = sc.end + ReadLen(Len(content) - sc.end, sc.chunk)]
    ELSE [sc EXCEPT !.eof = TRUE]

\* what Scan does with the answer r of the split function: "done" with the
\* Scanner and the answer of Scan, or "more" with the Scanner that must read
AfterSplit(sc, r) ==
    IF r.err = "panic"
    THEN [more |-> FALSE, ok |-> FALSE,
          sc |-> [sc EXCEPT !.panicked = TRUE, !.tz = r.tz]]
    ELSE IF r.err = "final"
    THEN [more |-> FALSE, ok |-> ~r.isNil,
          sc |-> [sc EXCEPT !.token = r.token, !.done = TRUE, !.tz = r.tz]]
    ELSE IF r.advance > sc.end - sc.start
    THEN \* ErrAdvanceTooFar: the scan stops
         [more |-> FALSE, ok |-> FALSE, sc |-> [sc EXCEPT !.done = TRUE, !.tz = r.tz]]
    ELSE IF ~r.isNil
    THEN [more |-> FALSE, ok |-> TRUE,
          sc |-> [sc EXCEPT !.start = sc.start + r.advance,
                            !.token = r.token, !.tz = r.tz]]
    ELSE IF sc.eof
    THEN [more |-> FALSE, ok |-> FALSE,
          sc |-> [sc EXCEPT !.start = 0, !.end = 0, !.token = <<>>, !.tz = r.tz]]
    ELSE [more |-> TRUE, ok |-> FALSE,
          sc |-> [sc EXCEPT !.start = sc.start + r.advance,
                            !.token = <<>>, !.tz = r.tz]]

\* Scanner.Scan: the Scanner after the call; ok says whether it answered true
RECURSIVE Scan(_, _, _)
ScanOn(a, content, k) ==
    IF a.more
    THEN Scan(AfterRead(a.sc, content), content, k)
    ELSE [ok |-> a.ok, sc |-> a.sc]

Scan(sc, content, k) ==
    IF sc.done \/ sc.panicked
    THEN [ok |-> FALSE, sc |-> sc]
    ELSE IF sc.end > sc.start \/ sc.eof
    THEN ScanOn(AfterSplit(sc, splitHtexTokens(sc.tz, Slice(content, sc.start, sc.end),
                                               sc.eof, k)),
                content, k)
    ELSE Scan(AfterRead(sc, content), content, k)

\* every token the Scanner gives for a file, in order (the tokens of successive
\* Scan calls that answer true)
RECURSIVE TokensFrom(_, _, _)
TokensOn(s, content, k) ==
    IF s.ok THEN <<s.sc.token>> \o TokensFrom(s.sc, content, k) ELSE <<>>

TokensFrom(sc, content, k) == TokensOn(Scan(sc, content, k), content, k)

Tokens(content, k) == TokensFrom(ScInit, content, k)

----------------------------------------------------------------------------
(* Elements and files.  values is <<>> for a nil *url.Values, else the     *)
(* <<name, value>> pairs in the order values.Add was called.  The layout   *)
(* pointer of a file is <<>> (nil) or <<hf>>.                              *)

Elem(kind, text, values) == [kind |-> kind, text |-> text, values |-> values]

ElemNone == Elem("None", <<>>, <<>>)

HtexFile(fn, elems, layout) == [fn |-> fn, elems |-> elems, layout |-> layout]

T_close    == <<">">>
T_comment  == <<"<","!","-","-">>
T_doctype  == <<"<","!">> \o W_doctype
T_layout   == <<"<","!","l","a","y","o","u","t">>
T_content  == <<"<","!","c","o","n","t","e","n","t">>
T_get      == <<"<","!","g","e","t">>
T_set      == <<"<","!","s","e","t">>
T_url      == <<"<","!","u","r","l">>
T_data     == <<"<","!","d","a","t","a">>
T_query    == <<"<","!","q","u","e","r","y">>
T_method   == <<"<","!","m","e","t","h","o","d">>
T_inclRaw  == <<"<","!","i","n","c","l","u","d","e","-","r","a","w">>
T_inclEsc  == <<"<","!","i","n","c","l","u","d","e","-","e","s","c","a","p","e","d">>
T_inclMd   == <<"<","!","i","n","c","l","u","d","e","-","m","a","r","k","d","o","w","n">>
W_any      == <<"a","n","y">>

\* filepath.Dir of a path under the content root: all before the last '/'
RECURSIVE Dir(_)
Dir(fn) ==
    IF fn = <<>> THEN <<>>
    ELSE IF fn[Len(fn)] = "/" THEN SubSeq(fn, 1, Len(fn) - 1)
    ELSE Dir(SubSeq(fn, 1, Len(fn) - 1))

\* solveUrlPathToLocalPath, for a non-empty urlPath with no "." or ".."
\* segment; paths are written from the content root, which is <<>>
solveUrlPathToLocalPath(relativeTo, urlPath) ==
    IF urlPath[1] = "/"
    THEN urlPath
    ELSE Dir(relativeTo) \o <<"/">> \o urlPath

\* strings.Cut(s, "="): <<before, after>>
RECURSIVE CutEq(_, _)
CutEq(s, i) ==
    IF i > Len(s) THEN <<s, <<>> >>
    ELSE IF s[i] = "=" THEN <<SubSeq(s, 1, i - 1), SubSeq(s, i + 1, Len(s))>>
    ELSE CutEq(s, i + 1)

----------------------------------------------------------------------------
(* parseHtexScanner.  A call in progress is a frame: the file, its bytes,  *)
(* the Scanner, the elements so far, and the locals insideHtexElem and     *)
(* nextToken.  ParseIter is one turn of its "for true" loop.               *)

Frame(fn, content) ==
    [fn |-> fn, content |-> content, sc |-> ScOver(chunk), elems |-> <<>>,
     layout |-> <<>>, insideHtexElem |-> FALSE, nextToken |-> TRUE]

\* "for scanner.Scan() { value := scanner.Text(); if value == ">" { nextToken =
\* false; break }; ... Add ... }": the Scanner after the loop, the words read,
\* and whether the loop ended on ">"
RECURSIVE ScanWords(_, _, _, _)
ScanWordsOn(s, content, k, acc) ==
    IF ~s.ok THEN [sc |-> s.sc, words |-> acc, closed |-> FALSE]
    ELSE IF s.sc.token = T_close
    THEN [sc |-> s.sc, words |-> acc, closed |-> TRUE]
    ELSE ScanWords(s.sc, content, k, Append(acc, s.sc.token))

ScanWords(sc, content, k, acc) == ScanWordsOn(Scan(sc, content, k), content, k, acc)

ParseRet(kind, f, elem, callFn) ==
    [kind |-> IF f.sc.panicked THEN "panic" ELSE kind,
     f |-> IF elem.kind # "None" THEN [f EXCEPT !.elems = Append(@, elem)] ELSE f,
     callFn |-> callFn]

\* a tag that reads nothing more than its first argument: s is the Scan for
\* that argument, elem the element built from it, bare what ">" in its place
\* gives ("continue" with nextToken = false and the element bareElem)
ParseOneArg(f, s, elem, bareOk, bareElem) ==
    IF ~s.ok THEN ParseRet("break", [f EXCEPT !.sc = s.sc], ElemNone, <<>>)
    ELSE IF bareOk /\ s.sc.token = T_close
    THEN ParseRet("continue", [f EXCEPT !.sc = s.sc, !.nextToken = FALSE],
                  bareElem, <<>>)
    ELSE ParseRet("continue", [f EXCEPT !.sc = s.sc], elem, <<>>)

\* <!layout ...>: s is the Scan for the path
ParseLayoutTag(f, s) ==
    IF ~s.ok THEN ParseRet("break", [f EXCEPT !.sc = s.sc], ElemNone, <<>>)
    ELSE IF s.sc.token = T_close
    THEN ParseRet("continue", [f EXCEPT !.sc = s.sc, !.nextToken = FALSE],
                  ElemNone, <<>>)
    ELSE IF s.sc.token = <<>>
    THEN \* urlPath[0] of an empty string: a run-time panic
         ParseRet("panic", [f EXCEPT !.sc = s.sc], ElemNone, <<>>)
    ELSE ParseRet("call", [f EXCEPT !.sc = s.sc], ElemNone,
                  solveUrlPathToLocalPath(f.fn, s.sc.token))

\* the end of <!set name value...>: w is the loop over the values
ParseSetWords(f, varName, w) ==
    ParseRet("continue", [f EXCEPT !.sc = w.sc, !.nextToken = ~w.closed],
             Elem("Set", varName, [n \in 1..Len(w.words) |-> <<varName, w.words[n]>>]),
             <<>>)

\* <!set ...>: s is the Scan for the name
ParseSetTag(f, k, s) ==
    IF ~s.ok THEN ParseRet("break", [f EXCEPT !.sc = s.sc], ElemNone, <<>>)
    ELSE ParseSetWords(f, s.sc.token, ScanWords(s.sc, f.content, k, <<>>))

\* the end of <!method name key[=value]...>: w is the loop over the constraints
ParseMethodWords(f, methodName, w) ==
    ParseRet("continue", [f EXCEPT !.sc = w.sc, !.nextToken = ~w.closed],
             Elem("Method", ToLower(methodName),
                  [n \in 1..Len(w.words) |-> CutEq(w.words[n], 1)]),
             <<>>)

\* <!method ...>: s is the Scan for the name
ParseMethodTag(f, k, s) ==
    IF ~s.ok THEN ParseRet("break", [f EXCEPT !.sc = s.sc], ElemNone, <<>>)
    ELSE IF s.sc.token = T_close
    THEN ParseRet("continue", [f EXCEPT !.sc = s.sc, !.nextToken = FALSE],
                  Elem("Method", <<>>, <<>>), <<>>)
    ELSE ParseMethodWords(f, s.sc.token, ScanWords(s.sc, f.content, k, <<>>))

\* <!include-escaped ...> and <!include-markdown ...>: "scanner.Scan()" with
\* its answer unread, then scanner.Text()
ParseUnchecked(f, s, kind) ==
    ParseRet("continue", [f EXCEPT !.sc = s.sc], Elem(kind, s.sc.token, <<>>), <<>>)

\* the tag whose name token is tok (lowerTok in lower case); f has
\* insideHtexElem = TRUE already, s is the next Scan, for the tags that ask
\* for one
ParseTagOn(f, k, tok, lowerTok, s) ==
    IF HasPrefix(lowerTok, T_layout) THEN ParseLayoutTag(f, s)
    ELSE IF lowerTok = T_content
    THEN ParseRet("continue", f, Elem("Content", <<>>, <<>>), <<>>)
    ELSE IF lowerTok = T_get
    THEN ParseOneArg(f, s, Elem("Get", s.sc.token, <<>>), FALSE, ElemNone)
    ELSE IF lowerTok = T_set THEN ParseSetTag(f, k, s)
    ELSE IF lowerTok = T_url
    THEN ParseRet("continue", f, Elem("Url", <<>>, <<>>), <<>>)
    ELSE IF lowerTok = T_data
    THEN ParseOneArg(f, s, Elem("Data", s.sc.token, <<>>), TRUE, ElemNone)
    ELSE IF lowerTok = T_query
    THEN ParseOneArg(f, s, Elem("Query", s.sc.token, <<>>), TRUE,
                     Elem("Query", <<>>, <<>>))
    ELSE IF lowerTok = T_method THEN ParseMethodTag(f, k, s)
    ELSE IF lowerTok = T_inclRaw
    THEN ParseOneArg(f, s, Elem("IncludeRaw", s.sc.token, <<>>), TRUE, ElemNone)
    ELSE IF lowerTok = T_inclEsc THEN ParseUnchecked(f, s, "IncludeEscaped")
    ELSE IF lowerTok = T_inclMd THEN ParseUnchecked(f, s, "IncludeMarkdown")
    ELSE IF HasPrefix(tok, T_comment)
    THEN ParseRet("continue", [f EXCEPT !.insideHtexElem = FALSE], ElemNone, <<>>)
    ELSE \* log.Println("invalid htex element", tok)
         ParseRet("continue", f, ElemNone, <<>>)

ParseTag(f, k, tok) ==
    ParseTagOn(f, k, tok, ToLower(tok), Scan(f.sc, f.content, k))

\* the test as it would be without its KeepComments half
KeptAsText_doctypeOnly(tok, k) == HasPrefix(ToLower(tok), T_doctype)

\* "strings.HasPrefix(lowerTok, "<!doctype") || (h.KeepComments &&
\* strings.HasPrefix(tok, "<!--"))": a "<!" token that is text as it stands
KeptAsText(tok, k) ==
    HasPrefix(ToLower(tok), T_doctype) \/ (k /\ HasPrefix(tok, T_comment))

\* the body of the loop for the token tok; f0 is the frame once the token
\* is read
ParseToken(f0, k, tok) ==
    IF Len(tok) > 2 /\ tok[1] = "<" /\ tok[2] = "!"
    THEN IF KeptAsText(tok, k)
         THEN ParseRet("continue", f0, Elem("Text", tok, <<>>), <<>>)
         ELSE ParseTag([f0 EXCEPT !.insideHtexElem = TRUE], k, tok)
    ELSE IF f0.insideHtexElem
    THEN ParseRet("continue",
                  IF tok = T_close THEN [f0 EXCEPT !.insideHtexElem = FALSE] ELSE f0,
                  ElemNone, <<>>)
    ELSE IF tok # <<>>
    THEN ParseRet("continue", f0, Elem("Text", tok, <<>>), <<>>)
    ELSE ParseRet("continue", f0, ElemNone, <<>>)

\* s0 is the Scan at the top of the loop ("if nextToken { if !scanner.Scan()
\* { break } } else { nextToken = true }")
ParseIterOn(f, k, s0) ==
    IF ~s0.ok
    THEN ParseRet("break", [f EXCEPT !.sc = s0.sc, !.nextToken = TRUE], ElemNone, <<>>)
    ELSE ParseToken([f EXCEPT !.sc = s0.sc, !.nextToken = TRUE], k, s0.sc.token)

ParseIter(f, k) ==
    ParseIterOn(f, k, IF f.nextToken THEN Scan(f.sc, f.content, k)
                      ELSE [ok |-> TRUE, sc |-> f.sc])

----------------------------------------------------------------------------
(* The request.  A url.Values (the URL query, the parsed form) is the      *)
(* sequence of its <<key, value>> pairs in the order they were given.      *)

\* url.Values.Has
Has(vals, key) == \E n \in 1..Len(vals) : vals[n][1] = key

\* as it would be with the last value of key
Get_last(vals, key) ==
    IF Has(vals, key)
    THEN vals[CHOOSE n \in 1..Len(vals) :
                 /\ vals[n][1] = key
                 /\ \A m \in (n + 1)..Len(vals) : vals[m][1] # key][2]
    ELSE <<>>

\* url.Values.Get, and values[key][0]: the first value of key, "" if none
Get(vals, key) ==
    IF Has(vals, key)
    THEN vals[CHOOSE n \in 1..Len(vals) :
                 /\ vals[n][1] = key
                 /\ \A m \in 1..(n - 1) : vals[m][1] # key][2]
    ELSE <<>>

\* matchQuery(a, b): a the constraints of a Method element, b the URL query
matchQuery(a, b) ==
    \A n \in 1..Len(a) :
        LET key == a[n][1]
        IN  /\ Has(b, key)
            /\ (Get(a, key) # <<>> => Get(b, key) = Get(a, key))

\* r.URL.RawQuery of a query given as pairs: key=value joined by '&'
RECURSIVE RawQuery(_)
RawQuery(q) ==
    IF q = <<>> THEN <<>>
    ELSE q[1][1] \o (IF q[1][2] = <<>> THEN <<>> ELSE <<"=">> \o q[1][2])
         \o (IF Len(q) > 1 THEN <<"&">> \o RawQuery(Tail(q)) ELSE <<>>)

\* the byte a %XX escape stands for, for the escapes the inputs use
Unhex(h, l) ==
    IF <<h, l>> = <<"2","0">> THEN " "
    ELSE IF <<h, l>> = <<"3","C">> THEN "<"
    ELSE IF <<h, l>> = <<"2","6">> THEN "&"
    ELSE "?"

\* url.QueryUnescape of a well-formed word: '+' is a space, %XX a byte
RECURSIVE QueryUnescape(_)
QueryUnescape(b) ==
    IF b = <<>> THEN <<>>
    ELSE IF b[1] = "+" THEN <<" ">> \o QueryUnescape(Tail(b))
    ELSE IF b[1] = "%" /\ Len(b) >= 3
    THEN <<Unhex(b[2], b[3])>> \o QueryUnescape(SubSeq(b, 4, Len(b)))
    ELSE <<b[1]>> \o QueryUnescape(Tail(b))

\* r.URL.Query(), and the body read by r.ParseForm(): the pairs of a raw
\* query, key and value unescaped
ParseQuery(q) ==
    [n \in 1..Len(q) |-> <<QueryUnescape(q[n][1]), QueryUnescape(q[n][2])>>]

\* the form as it would be with the URL query alone
Form_queryOnly(r) == r.query

\* r.Form after r.ParseForm(): the posted fields, then the URL query
Form(r) == r.body \o r.query

\* p with every run of '/' made one '/'
RECURSIVE Squeeze(_)
Squeeze(p) ==
    IF Len(p) <= 1 THEN p
    ELSE IF p[1] = "/" /\ p[2] = "/" THEN Squeeze(Tail(p))
    ELSE <<p[1]>> \o Squeeze(Tail(p))

\* the path without its trailing '/', the root aside
Untrail(q) ==
    IF Len(q) <= 1 THEN <<"/">>
    ELSE IF q[Len(q)] = "/" THEN SubSeq(q, 1, Len(q) - 1)
    ELSE q

\* path.Clean of a rooted URL path with no "." or ".." segment: no doubled
\* and no trailing '/'
PathClean(pth) == Untrail(Squeeze(pth))

\* html.EscapeString
EscapeByte(c) ==
    IF c = "<" THEN <<"&","l","t",";">>
    ELSE IF c = ">" THEN <<"&","g","t",";">>
    ELSE IF c = "&" THEN <<"&","a","m","p",";">>
    ELSE IF c = "'" THEN <<"&","#","3","9",";">>
    ELSE IF c = "\"" THEN <<"&","#","3","4",";">>
    ELSE <<c>>

EscapeString(b) == Concat([n \in 1..Len(b) |-> EscapeByte(b[n])])

\* markdownToHtml: the gomarkdown transform, kept abstract as a paragraph
markdownToHtml(md) == <<"<","p",">">> \o md \o <<"<","/","p",">">>

----------------------------------------------------------------------------
(* writeHtexFile.  A walk in progress is a frame: the file, the index of   *)
(* the next element, skipUntilNewMethod, the vars map (a function on the   *)
(* names that are set) and the content continuation.  A continuation is    *)
(* the sequence of files still to be rendered inside: <<>> is nil, and     *)
(* <<hf>> \o c is "func(w, r) { h.writeHtexFile(w, r, hf, nil, c) }".      *)

NoVars == [n \in {} |-> <<>>]

Walk(hf, content) ==
    [hf |-> hf, i |-> 1, skipUntilNewMethod |-> FALSE, vars |-> NoVars,
     content |-> content]

\* the walk that writeHtexFile(w, r, hf, layout, content) starts: the "if
\* layout != nil" recursion down to the outermost layout
\* writeHtexFile as it would be without the "if layout != nil" block
writeHtexFile_noLayout(hf, layout, content) == Walk(hf, content)

RECURSIVE writeHtexFile(_, _, _)
writeHtexFile(hf, layout, content) ==
    IF layout # <<>>
    THEN writeHtexFile(layout[1], layout[1].layout, <<hf>> \o content)
    ELSE Walk(hf, content)

\* the test as it would be with r.Method for strings.ToLower(r.Method)
MethodMatches_caseSensitive(elem, r) ==
    \/ /\ elem.text = r.method
       /\ (elem.values = <<>> \/ matchQuery(elem.values, r.query))
    \/ elem.text = W_any

\* the test as it would be if an empty name let every request through
MethodMatches_emptyOpens(elem, r) ==
    \/ /\ elem.text = ToLower(r.method)
       /\ (elem.values = <<>> \/ matchQuery(elem.values, r.query))
    \/ elem.text = W_any
    \/ elem.text = <<>>

\* whether a Method element lets the request through
MethodMatches(elem, r) ==
    \/ /\ elem.text = ToLower(r.method)
       /\ (elem.values = <<>> \/ matchQuery(elem.values, r.query))
    \/ elem.text = W_any

SetVar(vs, name, value) ==
    [n \in (DOMAIN vs) \cup {name} |-> IF n = name THEN value ELSE vs[n]]

DeleteVar(vs, name) == [n \in (DOMAIN vs) \ {name} |-> vs[n]]

\* the value as it would be with the last word for the first
SetValue_last(elem) == elem.values[Len(elem.values)][2]

\* "(*elem.values)[elem.text][0]": the value <!set name value...> stores
SetValue(elem) == Get(elem.values, elem.text)

\* the branch as it would be if it wrote the tag back
NilContent_echo == T_content \o T_close

\* what the empty "else" of "if content != nil" writes
NilContent == <<>>

\* as it would be if every kind of include wrote the bytes as they are
IncludeBytes_rawOnly(files, hf, elem) ==
    LET fn == solveUrlPathToLocalPath(hf.fn, elem.text)
    IN  IF fn \notin DOMAIN files THEN <<>> ELSE files[fn]

\* what an Include element writes: the bytes, or <<>> when the read fails
IncludeBytes(files, hf, elem) ==
    LET fn == solveUrlPathToLocalPath(hf.fn, elem.text)
    IN  IF fn \notin DOMAIN files THEN <<>>
        ELSE IF elem.kind = "IncludeEscaped" THEN EscapeString(files[fn])
        ELSE IF elem.kind = "IncludeMarkdown" THEN markdownToHtml(files[fn])
        ELSE files[fn]

\* the element the walk is at is an Include with no path, and it is not
\* passed over: "urlPath[0]" in solveUrlPathToLocalPath is out of range
WalkPanics(w) ==
    /\ w.i <= Len(w.hf.elems)
    /\ w.hf.elems[w.i].kind \in {"IncludeRaw", "IncludeEscaped", "IncludeMarkdown"}
    /\ ~w.skipUntilNewMethod
    /\ w.hf.elems[w.i].text = <<>>

\* the test as it would be if no element were ever passed over
Skipped_never(w) == FALSE

\* "else if skipUntilNewMethod { continue }"
Skipped(w) == w.skipUntilNewMethod

\* one turn of "for _, elem := range hf.elems" on the walk w: the bytes it
\* writes, the walk after it, the walk the content continuation starts
\* (<<>> when it is not called) and the file os.ReadFile is called on (<<>>
\* when it is not called)
WalkElem(w, r, files) ==
    LET elem == w.hf.elems[w.i]
        nxt  == [w EXCEPT !.i = w.i + 1]
        Ret(bytes, w2, call) ==
            [bytes |-> bytes, w |-> w2, call |-> call, read |-> <<>>]
    IN
    IF elem.kind = "Method"
    THEN Ret(<<>>, [nxt EXCEPT !.skipUntilNewMethod = ~MethodMatches(elem, r)], <<>>)
    ELSE IF Skipped(w)
    THEN Ret(<<>>, nxt, <<>>)
    ELSE IF elem.kind = "Content"
    THEN IF w.content # <<>>
         THEN Ret(<<>>, nxt, <<writeHtexFile(Head(w.content), <<>>, Tail(w.content))>>)
         ELSE Ret(NilContent, nxt, <<>>)
    ELSE IF elem.kind = "Get"
    THEN IF elem.text \in DOMAIN w.vars
         THEN Ret(w.vars[elem.text], nxt, <<>>)
         ELSE Ret(<<>>, nxt, <<>>)
    ELSE IF elem.kind = "Set"
    THEN IF elem.values # <<>>
         THEN Ret(<<>>, [nxt EXCEPT !.vars = SetVar(@, elem.text, SetValue(elem))],
                  <<>>)
         ELSE Ret(<<>>, [nxt EXCEPT !.vars = DeleteVar(@, elem.text)], <<>>)
    ELSE IF elem.kind = "Url"
    THEN Ret(PathClean(r.path), nxt, <<>>)
    ELSE IF elem.kind = "Data"
    THEN IF Has(Form(r), elem.text)
         THEN Ret(Get(Form(r), elem.text), nxt, <<>>)
         ELSE Ret(<<>>, nxt, <<>>)
    ELSE IF elem.kind = "Query"
    THEN IF Len(elem.text) > 0
         THEN IF Has(r.query, elem.text)
              THEN Ret(Get(r.query, elem.text), nxt, <<>>)
              ELSE Ret(<<>>, nxt, <<>>)
         ELSE Ret(r.rawQuery, nxt, <<>>)
    ELSE IF elem.kind \in {"IncludeRaw", "IncludeEscaped", "IncludeMarkdown"}
    THEN [Ret(IncludeBytes(files, w.hf, elem), nxt, <<>>)
            EXCEPT !.read = <<solveUrlPathToLocalPath(w.hf.fn, elem.text)>>]
    ELSE IF elem.kind = "Text"
    THEN Ret(elem.text, nxt, <<>>)
    ELSE Ret(<<>>, nxt, <<>>)

----------------------------------------------------------------------------
(* Handling one request for a .htex file: ServeHTTP from "hf, _ :=         *)
(* h.parseHtexFile(w, r, fn)" on.  pc is "parse" while parseHtexFile runs, *)
(* "render" while writeHtexFile runs, then "done"; "failed" after a layout *)
(* could not be opened, "panicked" after a run-time panic.                 *)

\* the Content-Type ServeHTTP sets before it parses a .htex file, and the
\* one http.Error and http.NotFound set
CT_html  == "text/html; charset=utf-8"
CT_plain == "text/plain; charset=utf-8"

MSG_500 == <<"5","0","0"," ","i","n","t","e","r","n","a","l"," ","e","r","r","o","r","\n">>

\* no LogHtexHandler is in use
NoLog == [w |-> 0, code |-> 0]

\* no filepath.Walk is under way
NoWalk == [fun |-> "", tree |-> <<>>, todo |-> <<>>]

Top(stack) == stack[Len(stack)]

\* os.Open(fn) answers a file: fn is there and may be read
CanOpen(fn) == fn \in DOMAIN fs /\ fn \notin noread

\* the files os.ReadFile reads
Readable == [f \in (DOMAIN fs) \ noread |-> fs[f]]

Pop(stack) == SubSeq(stack, 1, Len(stack) - 1)

SetTop(stack, f) == [stack EXCEPT ![Len(stack)] = f]

\* one turn of the parser loop that neither ends the call nor opens a layout
ParseStepOn(r) ==
    /\ r.kind = "continue"
    /\ pstack' = SetTop(pstack, r.f)

ParseStep ==
    /\ pc = "parse"
    /\ ParseStepOn(ParseIter(Top(pstack), keep))
    /\ UNCHANGED <<logw, logged, walk, calls, noread, chunk, fs, tmpl, keep, req, target, pc, rstack, hfTop, out, status, hdr>>

\* the most calls of parseHtexFile inside one another the stack and the open
\* files of the process have room for
MaxDepth == 4

\* "<!layout path>" with a file that opens: parseHtexFile(w, r, layoutFn) begins
ParseLayoutOn(r) ==
    /\ r.kind = "call"
    /\ CanOpen(r.callFn)
    /\ pstack' = Append(SetTop(pstack, r.f), Frame(r.callFn, fs[r.callFn]))

ParseLayout ==
    /\ pc = "parse"
    /\ Len(pstack) < MaxDepth
    /\ ParseLayoutOn(ParseIter(Top(pstack), keep))
    /\ UNCHANGED <<logw, logged, walk, calls, noread, chunk, fs, tmpl, keep, req, target, pc, rstack, hfTop, out, status, hdr>>

\* "<!layout path>" with a file that does not open: every parseHtexScanner
\* of the chain answers http.Error(w, "500 internal error", 500) and
\* returns nil, err
ParseLayoutFailOn(r) ==
    /\ r.kind = "call"
    /\ ~CanOpen(r.callFn)
    /\ out' = out \o Concat([n \in 1..Len(pstack) |-> MSG_500])

\* the failure as it would be if the parser went on without the layout
ParseLayoutIgnoredOn(r) ==
    /\ r.kind = "call"
    /\ ~CanOpen(r.callFn)
    /\ pstack' = SetTop(pstack, r.f)

ParseLayoutFail_ignored ==
    /\ pc = "parse"
    /\ ParseLayoutIgnoredOn(ParseIter(Top(pstack), keep))
    /\ UNCHANGED <<logw, logged, walk, calls, noread, chunk, fs, tmpl, keep, req, target, pc, rstack, hfTop, out, status, hdr>>

ParseLayoutFail ==
    /\ pc = "parse"
    /\ ParseLayoutFailOn(ParseIter(Top(pstack), keep))
    /\ status' = IF status = 0 THEN 500 ELSE status
    /\ pc' = "failed"
    /\ pstack' = <<>>
    /\ hdr' = CT_plain
    /\ UNCHANGED <<logw, logged, walk, calls, noread, chunk, fs, tmpl, keep, req, target, rstack, hfTop>>

\* the Scanner is exhausted (or a Scan inside a tag failed): a layout's
\* parseHtexScanner returns its file to the call that asked for it
ParseReturnOn(r) ==
    /\ r.kind = "break"
    /\ pstack' = SetTop(Pop(pstack),
                        [Top(Pop(pstack)) EXCEPT
                            !.layout = <<HtexFile(r.f.fn, r.f.elems, r.f.layout)>>])

ParseReturn ==
    /\ pc = "parse"
    /\ Len(pstack) > 1
    /\ ParseReturnOn(ParseIter(Top(pstack), keep))
    /\ UNCHANGED <<logw, logged, walk, calls, noread, chunk, fs, tmpl, keep, req, target, pc, rstack, hfTop, out, status, hdr>>

\* the requested file is parsed: r.ParseForm() and
\* h.writeHtexFile(w, r, hf, hf.layout, nil) begins
ParseDoneOn(r, hf) ==
    /\ r.kind = "break"
    /\ hfTop' = <<hf>>
    /\ rstack' = <<writeHtexFile(hf, hf.layout, <<>>)>>

ParseDoneWith(r) == ParseDoneOn(r, HtexFile(r.f.fn, r.f.elems, r.f.layout))

ParseDone ==
    /\ pc = "parse"
    /\ Len(pstack) = 1
    /\ ParseDoneWith(ParseIter(Top(pstack), keep))
    /\ pstack' = <<>>
    /\ pc' = "render"
    /\ UNCHANGED <<logw, logged, walk, calls, noread, chunk, fs, tmpl, keep, req, target, out, status, hdr>>

\* an index out of range while scanning or resolving a path
ParsePanic ==
    /\ pc = "parse"
    /\ ParseIter(Top(pstack), keep).kind = "panic"
    /\ pc' = "panicked"
    /\ pstack' = <<>>
    /\ UNCHANGED <<logw, logged, walk, calls, noread, chunk, fs, tmpl, keep, req, target, rstack, hfTop, out, status, hdr>>

\* the step as it would be if Write put the bytes before what is written
RenderStepOn_prepend(r) ==
    /\ out' = r.bytes \o out
    /\ status' = IF status = 0 /\ r.bytes # <<>> THEN 200 ELSE status
    /\ rstack' = SetTop(rstack, r.w) \o r.call

\* one element of the innermost walk
RenderStepOn(r) ==
    /\ out' = out \o r.bytes
    /\ status' = IF status = 0 /\ r.bytes # <<>> THEN 200 ELSE status
    /\ rstack' = SetTop(rstack, r.w) \o r.call

RenderStep ==
    /\ pc = "render"
    /\ Top(rstack).i <= Len(Top(rstack).hf.elems)
    /\ ~WalkPanics(Top(rstack))
    /\ RenderStepOn(WalkElem(Top(rstack), req, Readable))
    /\ UNCHANGED <<logw, logged, walk, calls, noread, chunk, fs, tmpl, keep, req, target, pc, pstack, hfTop, hdr>>

\* the return as it would be if the caller went on in the state the walk of
\* the inner file ended in
RenderReturn_inherit ==
    /\ pc = "render"
    /\ Len(rstack) > 1
    /\ Top(rstack).i > Len(Top(rstack).hf.elems)
    /\ rstack' = SetTop(Pop(rstack),
                        [Top(Pop(rstack)) EXCEPT
                            !.skipUntilNewMethod = Top(rstack).skipUntilNewMethod])
    /\ UNCHANGED <<logw, logged, walk, calls, noread, chunk, fs, tmpl, keep, req, target, pc, pstack, hfTop, out, status, hdr>>

\* a run-time panic in the walk: net/http recovers it and closes the
\* connection; what was written stays written
RenderPanic ==
    /\ pc = "render"
    /\ WalkPanics(Top(rstack))
    /\ pc' = "panicked"
    /\ rstack' = <<>>
    /\ UNCHANGED <<logw, logged, walk, calls, noread, chunk, fs, tmpl, keep, req, target, pstack, hfTop, out, status, hdr>>

\* the innermost walk is over: the content continuation returns
RenderReturn ==
    /\ pc = "render"
    /\ Len(rstack) > 1
    /\ Top(rstack).i > Len(Top(rstack).hf.elems)
    /\ rstack' = Pop(rstack)
    /\ UNCHANGED <<logw, logged, walk, calls, noread, chunk, fs, tmpl, keep, req, target, pc, pstack, hfTop, out, status, hdr>>

\* the outermost walk is over: ServeHTTP returns
RenderDone ==
    /\ pc = "render"
    /\ Len(rstack) = 1
    /\ Top(rstack).i > Len(Top(rstack).hf.elems)
    /\ rstack' = <<>>
    /\ pc' = "done"
    /\ status' = IF status = 0 THEN 200 ELSE status
    /\ UNCHANGED <<logw, logged, walk, calls, noread, chunk, fs, tmpl, keep, req, target, pstack, hfTop, out, hdr>>

\* "<!layout path>" with a file that opens and no room for one more call:
\* the goroutine's stack or the open files of the process are used up
ParseExhaustedOn(r) ==
    /\ r.kind = "call"
    /\ CanOpen(r.callFn)
    /\ pstack' = <<>>

ParseExhausted ==
    /\ pc = "parse"
    /\ Len(pstack) >= MaxDepth
    /\ ParseExhaustedOn(ParseIter(Top(pstack), keep))
    /\ pc' = "exhausted"
    /\ UNCHANGED <<logw, logged, walk, calls, noread, chunk, fs, tmpl, keep, req, target, rstack, hfTop, out, status, hdr>>

Next ==
    \/ ParseStep
    \/ ParseLayout
    \/ ParseLayoutFail
    \/ ParseReturn
    \/ ParseDone
    \/ ParsePanic
    \/ RenderStep
    \/ RenderReturn
    \/ RenderDone

----------------------------------------------------------------------------
(* The inputs.  A file is put together from fragments; a fragment carries  *)
(* its source bytes b and what it is meant to be (t, name, args), which    *)
(* the properties below read and the program never sees.  A family of      *)
(* inputs is every sequence of at most MaxFrags units of its vocabulary,   *)
(* a unit being a few fragments that go together.                          *)

MaxText  == 3   \* longest file written byte by byte
MaxFrags == 3   \* most units in a file put together from units
MaxChain == 2   \* longest chain of layouts above a page

SP == <<" ">>

W_get   == <<"g","e","t">>
W_GET   == <<"G","E","T">>
W_post  == <<"p","o","s","t">>
W_POST  == <<"P","O","S","T">>
W_id    == <<"i","d">>
W_42    == <<"4","2">>
W_7     == <<"7">>
W_u     == <<"u">>
W_x     == <<"x">>
W_y     == <<"y">>
W_hello == <<"h","e","l","l","o">>
W_v     == <<"v">>
W_w     == <<"w">>
W_a_b   == <<"a","+","b">>
W_lt    == <<"%","3","C">>
W_html  == <<"<","h","t","m","l",">">>
W_ehtml == <<"<","/","h","t","m","l",">">>
W_pHi   == <<"<","p",">","H","i","<","/","p",">">>
W_SPhtml == <<" ","h","t","m","l">>
W_DOCTYPE == <<"<","!","D","O","C","T","Y","P","E">>
W_DocType == <<"<","!","D","o","c","T","y","p","e">>

Frag(t, b, name, args) == [t |-> t, b |-> b, name |-> name, args |-> args]

FText(b) == Frag("text", b, <<>>, <<>>)

\* bytes that are meant to be nothing in particular
FRaw(b) == Frag("raw", b, <<>>, <<>>)

\* a constraint word of <!method>: key or key=value
ConsWord(c) == IF c[2] = <<>> THEN c[1] ELSE c[1] \o <<"=">> \o c[2]

\* the words of a tag, each after one space
RECURSIVE Words(_)
Words(ws) == IF ws = <<>> THEN <<>> ELSE SP \o Head(ws) \o Words(Tail(ws))

FMethod(name, cons) ==
    Frag("method",
         T_method \o (IF name = <<>> THEN <<>> ELSE SP \o name)
                  \o Words([n \in 1..Len(cons) |-> ConsWord(cons[n])]) \o T_close,
         name, cons)

FSet(name, vals) == Frag("set", T_set \o SP \o name \o Words(vals) \o T_close, name, vals)

FGet(name) == Frag("get", T_get \o SP \o name \o T_close, name, <<>>)

FContent == Frag("content", T_content \o T_close, <<>>, <<>>)

FUrl == Frag("url", T_url \o T_close, <<>>, <<>>)

FData(name) == Frag("data", T_data \o SP \o name \o T_close, name, <<>>)

\* <!query key>, and <!query> when key is empty
FQuery(key) ==
    Frag("query", T_query \o (IF key = <<>> THEN <<>> ELSE SP \o key) \o T_close,
         key, <<>>)

FLayout(path) == Frag("layout", T_layout \o SP \o path \o T_close, path, <<>>)

\* an HTML comment and a doctype declaration, given by their bytes
FComment(b) == Frag("comment", b, <<>>, <<>>)

FDoctype(b) == Frag("doctype", b, <<>>, <<>>)

SeqsUpTo(V, n) == UNION {[1..m -> V] : m \in 0..n}

SrcBytes(frags) == Concat([n \in 1..Len(frags) |-> frags[n].b])

P_page == <<"/","p">>
P_nope == <<"/","n","o","p","e">>

Digits == <<"1","2","3","4","5","6","7","8","9">>

\* the n-th layout above the page: its name and its path
LName(n) == <<"L", Digits[n]>>

LPath(n) == <<"/">> \o LName(n)

\* a request: query and body are given as the pairs of their raw form
RequestTo(method, pth, query, body) ==
    [method |-> method, path |-> pth, rawQuery |-> RawQuery(query),
     query |-> ParseQuery(query), body |-> ParseQuery(body)]

Request(method, query) == RequestTo(method, <<"/">>, query, <<>>)

OnePage(frags) == [f \in {P_page} |-> frags]

\* files written byte by byte
Alphabet == {"a", " ", "<", "!", ">", "-"}

\* <!method> sections told apart by the method name
V_methodName ==
    {<<FText(<<"a">>)>>, <<FText(<<"b"," ","c">>)>>,
     <<FMethod(W_get, <<>>), FText(<<"b">>)>>,
     <<FMethod(W_post, <<>>), FText(<<"c">>)>>,
     <<FMethod(W_any, <<>>)>>, <<FMethod(W_GET, <<>>)>>, <<FMethod(<<>>, <<>>)>>}

\* <!method> sections told apart by the URL query
V_methodQuery ==
    {<<FText(<<"b"," ","c">>)>>,
     <<FMethod(W_post, <<>>)>>,
     <<FMethod(W_get, << <<W_id, <<>> >> >>)>>,
     <<FMethod(W_get, << <<W_id, W_42>> >>)>>,
     <<FMethod(W_get, << <<W_id, W_42>>, <<W_id, W_7>> >>)>>,
     <<FMethod(W_any, << <<W_u, <<>> >> >>)>>}

QueryRequests ==
    {Request(W_GET, <<>>), Request(W_GET, << <<W_id, W_42>> >>),
     Request(W_GET, << <<W_id, W_7>> >>), Request(W_POST, << <<W_id, W_42>> >>)}

\* variables
V_var ==
    {<<FText(<<"a">>)>>,
     <<FSet(W_x, <<W_hello>>)>>, <<FSet(W_x, <<W_v, W_w>>)>>, <<FSet(W_x, <<>>)>>,
     <<FGet(W_x)>>, <<FGet(W_y)>>,
     <<FMethod(W_post, <<>>), FSet(W_x, <<W_w>>), FMethod(W_any, <<>>)>>}

\* HTML comments
V_comment ==
    {<<FText(<<"a">>)>>, <<FText(<<"b">>)>>,
     <<FComment(T_comment \o <<">">>)>>,
     <<FComment(T_comment \o <<"-",">">>)>>,
     <<FComment(T_comment \o <<"-","-",">">>)>>,
     <<FComment(T_comment \o <<" ","c"," ","-","-",">">>)>>,
     <<FComment(T_comment)>>,
     <<FComment(T_comment \o <<" ","c"," ","-","-">>)>>}

\* doctype declarations
V_doctype ==
    {<<FText(<<"a">>)>>, <<FText(<<"b"," ","c">>)>>,
     <<FDoctype(T_doctype \o W_SPhtml \o <<">">>)>>,
     <<FDoctype(W_DOCTYPE \o W_SPhtml \o <<">">>), FText(<<"b">>)>>,
     <<FDoctype(W_DocType \o W_SPhtml \o <<">">>), FText(<<"c">>)>>,
     <<FDoctype(T_doctype \o W_SPhtml)>>}

\* text around the tags that write something of the request
V_tags ==
    {<<FText(<<"a">>)>>, <<FText(<<"b">>)>>, <<FText(<<" ","c">>)>>,
     <<FData(W_x)>>, <<FQuery(W_id)>>, <<FQuery(<<>>)>>, <<FUrl>>}

\* requests with a URL query and posted fields, some of them escaped
TagRequests ==
    {RequestTo(W_GET, <<"/">>, <<>>, <<>>),
     RequestTo(W_GET, <<"/","p","/">>, << <<W_id, W_a_b>>, <<W_id, W_7>> >>, <<>>),
     RequestTo(W_GET, <<"/">>, << <<W_x, W_w>>, <<W_u, <<>> >> >>, <<>>),
     RequestTo(W_POST, <<"/">>, << <<W_x, W_lt>>, <<W_id, W_42>> >>,
               << <<W_x, W_hello>>, <<W_x, W_v>> >>)}

\* a tag the parser does not know, with or without arguments
FUnknown(name, args) ==
    Frag("unknown", <<"<","!">> \o name \o Words(args) \o T_close, name, args)

W_foo == <<"f","o","o">>

\* text and <!data> around tags the parser does not know
V_unknown ==
    {<<FText(<<"a">>)>>, <<FText(<<" ","c">>)>>,
     <<FUnknown(W_foo, <<>>)>>, <<FUnknown(W_foo, <<W_x, W_y>>)>>,
     <<FData(W_x)>>}

\* the bodies of layouts and of pages
LayoutBodies ==
    {<<FText(W_html), FContent, FText(W_ehtml)>>,
     <<FContent>>,
     <<FSet(W_x, <<W_v>>), FContent, FGet(W_x)>>,
     <<FMethod(W_post, <<>>), FContent, FMethod(W_any, <<>>), FText(<<"b"," ","c">>)>>,
     <<FText(<<"a">>), FContent, FContent>>,
     <<FText(<<"n">>)>>,
     <<FGet(W_x), FContent, FText(<<" ","b">>)>>,
     <<FText(<<"c">>), FMethod(W_get, <<>>), FContent>>}

PageBodies ==
    {<<FText(W_pHi)>>,
     <<FGet(W_x)>>,
     <<FSet(W_x, <<W_w>>), FGet(W_x)>>,
     <<FMethod(W_post, <<>>), FText(<<"q">>)>>,
     <<FText(<<"c">>), FContent>>}

\* the files of a page under d layouts: the page names L1 by a relative
\* path, each layout the next one by a path from the root; top is what the
\* outermost file puts before its body
ChainFiles(d, pb, lb, top) ==
    [f \in {P_page} \cup {LPath(n) : n \in 1..d} |->
        IF f = P_page
        THEN (IF d = 0 THEN top ELSE <<FLayout(LName(1))>>) \o pb
        ELSE LET n == CHOOSE m \in 1..d : LPath(m) = f
             IN  (IF n = d THEN top ELSE <<FLayout(LPath(n + 1))>>) \o lb[n]]

Flatten(units) == Concat(units)


InitText ==
    \E b \in SeqsUpTo(Alphabet, MaxText), k \in BOOLEAN, m \in {W_GET, W_POST} :
        /\ tmpl = OnePage(<<FRaw(b)>>)
        /\ target = P_page
        /\ keep = k
        /\ req = Request(m, <<>>)

InitMethodName ==
    \E us \in SeqsUpTo(V_methodName, MaxFrags), m \in {W_GET, W_POST} :
        /\ tmpl = OnePage(Flatten(us))
        /\ target = P_page
        /\ keep = FALSE
        /\ req = Request(m, <<>>)

InitMethodQuery ==
    \E us \in SeqsUpTo(V_methodQuery, MaxFrags), r \in QueryRequests :
        /\ tmpl = OnePage(Flatten(us))
        /\ target = P_page
        /\ keep = FALSE
        /\ req = r

InitVar ==
    \E us \in SeqsUpTo(V_var, MaxFrags), m \in {W_GET, W_POST} :
        /\ tmpl = OnePage(Flatten(us))
        /\ target = P_page
        /\ keep = FALSE
        /\ req = Request(m, <<>>)

InitComment ==
    \E us \in SeqsUpTo(V_comment, MaxFrags), k \in BOOLEAN :
        /\ tmpl = OnePage(Flatten(us))
        /\ target = P_page
        /\ keep = k
        /\ req = Request(W_GET, <<>>)

InitDoctype ==
    \E us \in SeqsUpTo(V_doctype, MaxFrags), k \in BOOLEAN :
        /\ tmpl = OnePage(Flatten(us))
        /\ target = P_page
        /\ keep = k
        /\ req = Request(W_GET, <<>>)

InitTags ==
    \E us \in SeqsUpTo(V_tags, MaxFrags), r \in TagRequests :
        /\ tmpl = OnePage(Flatten(us))
        /\ target = P_page
        /\ keep = FALSE
        /\ req = r

InitUnknown ==
    \E us \in SeqsUpTo(V_unknown, MaxFrags), r \in TagRequests :
        /\ tmpl = OnePage(Flatten(us))
        /\ target = P_page
        /\ keep = FALSE
        /\ req = r

\* a page under 0..MaxChain layouts; with one layout, also the layout
\* requested by its own URL
InitChain ==
    \E d \in 0..MaxChain, pb \in PageBodies, m \in {W_GET, W_POST} :
        \E lb \in [1..d -> LayoutBodies], t \in {P_page, LPath(1)} :
            /\ t = P_page \/ d = 1
            /\ tmpl = ChainFiles(d, pb, lb, <<>>)
            /\ target = t
            /\ keep = FALSE
            /\ req = Request(m, <<>>)

\* the same with an outermost file that names a layout that does not exist
InitBrokenChain ==
    \E d \in 0..MaxChain, lb \in LayoutBodies :
        /\ tmpl = ChainFiles(d, <<FText(W_pHi)>>, [n \in 1..d |-> lb],
                             <<FLayout(P_nope)>>)
        /\ target = P_page
        /\ keep = FALSE
        /\ req = Request(W_GET, <<>>)

Init ==
    /\ \/ InitText
       \/ InitMethodName
       \/ InitMethodQuery
       \/ InitVar
       \/ InitComment
       \/ InitDoctype
       \/ InitTags
       \/ InitUnknown
       \/ InitChain
       \/ InitBrokenChain
    /\ fs = [f \in DOMAIN tmpl |-> SrcBytes(tmpl[f])]
    /\ chunk = 0
    /\ noread = {}
    /\ walk = NoWalk
    /\ calls = <<>>
    /\ logw = NoLog
    /\ logged = <<>>
    /\ pc = "parse"
    /\ pstack = <<Frame(target, fs[target])>>
    /\ rstack = <<>>
    /\ hfTop = <<>>
    /\ out = <<>>
    /\ status = 0
    /\ hdr = CT_html

Spec == Init /\ [][Next]_vars

----------------------------------------------------------------------------
(* What the properties are stated with.                                    *)

\* whether "<!" occurs in b
HasTagStart(b) == \E n \in 1..(Len(b) - 1) : b[n] = "<" /\ b[n+1] = "!"

TextElem(b) == Elem("Text", b, <<>>)

\* the request came to an end without an answer of its own making
Crashed == pc \in {"failed", "panicked"}

\* the fragments of the requested file
Page == tmpl[target]

KindsOf(frags) == {frags[n].t : n \in 1..Len(frags)}

\* the first n >= from at which p occurs in b, 0 when there is none
Find(b, p, from) ==
    LET S == {n \in from..(Len(b) - Len(p) + 1) : SubSeq(b, n, n + Len(p) - 1) = p}
    IN  IF S = {} THEN 0 ELSE CHOOSE n \in S : \A m \in S : n <= m

W_commentEnd == <<"-","-",">">>

\* b without its comments, as the pieces of text between them: a comment
\* starts at "<!--" and ends with the first "-->" that begins two bytes
\* after its start or later, or with b when there is none
RECURSIVE TextSegments(_)
AfterComment(b, e) ==
    IF e = 0 THEN <<>> ELSE TextSegments(SubSeq(b, e + 3, Len(b)))

TextSegmentsAt(b, s) ==
    IF s = 0 THEN <<b>>
    ELSE <<SubSeq(b, 1, s - 1)>> \o AfterComment(b, Find(b, W_commentEnd, s + 2))

TextSegments(b) == TextSegmentsAt(b, Find(b, T_comment, 1))

NonEmpty(ss) == SelectSeq(ss, LAMBDA x : x # <<>>)

\* every "<!" of b starts a comment
CommentsOnly(b) ==
    \A n \in 1..Len(TextSegments(b)) : ~HasTagStart(TextSegments(b)[n])

\* every "<!" of b is followed by "doctype" in some case
DoctypeOnly(b) ==
    \A n \in 1..(Len(b) - 1) :
        (b[n] = "<" /\ b[n+1] = "!") =>
            /\ n + 8 <= Len(b)
            /\ ToLower(SubSeq(b, n + 2, n + 8)) = W_doctype

\* the constraints of a <!method> as C3 words them: the query has every
\* constrained key and, for each key=value, that value for the key
ConstraintsAsWorded(cons, q) ==
    \A n \in 1..Len(cons) :
        /\ Has(q, cons[n][1])
        /\ (cons[n][2] # <<>> => Get(q, cons[n][1]) = cons[n][2])

\* whether the section a <!method> fragment opens is output: its name is the
\* request's method, letter case aside, and its constraints hold, or its
\* name is "any".  The constraints are judged by matchQuery, or as C3 words
\* them when worded is TRUE.
SectionOpen(frag, r, worded) ==
    \/ /\ frag.name # <<>>
       /\ ToLower(frag.name) = ToLower(r.method)
       /\ \/ frag.args = <<>>
          \/ IF worded THEN ConstraintsAsWorded(frag.args, r.query)
                       ELSE matchQuery(frag.args, r.query)
    \/ ToLower(frag.name) = W_any

\* what a file of text, <!method>, <!set> and <!get> fragments is to write:
\* env maps the variables that are set to their values
RECURSIVE Expected(_, _, _, _, _)
Expected(frags, r, worded, skipping, env) ==
    IF frags = <<>> THEN <<>>
    ELSE LET g == Head(frags)
             rest == Tail(frags)
         IN  IF g.t = "method"
             THEN Expected(rest, r, worded, ~SectionOpen(g, r, worded), env)
             ELSE IF skipping THEN Expected(rest, r, worded, skipping, env)
             ELSE IF g.t = "set"
             THEN Expected(rest, r, worded, skipping,
                           IF g.args = <<>>
                           THEN [n \in (DOMAIN env) \ {g.name} |-> env[n]]
                           ELSE [n \in (DOMAIN env) \cup {g.name} |->
                                    IF n = g.name THEN g.args[1] ELSE env[n]])
             ELSE IF g.t = "get"
             THEN (IF g.name \in DOMAIN env THEN env[g.name] ELSE <<>>)
                  \o Expected(rest, r, worded, skipping, env)
             ELSE g.b \o Expected(rest, r, worded, skipping, env)

\* the parsed files from the outermost layout down to hf
RECURSIVE ChainOf(_)
ChainOf(hf) ==
    (IF hf.layout = <<>> THEN <<>> ELSE ChainOf(hf.layout[1])) \o <<hf>>

\* the file a <!layout> fragment of a file in the root names
LayoutPath(name) == IF name[1] = "/" THEN name ELSE <<"/">> \o name

\* the files from the outermost layout down to f, as the sources declare them
RECURSIVE DeclaredChain(_)
DeclaredChain(f) ==
    LET ls == SelectSeq(tmpl[f], LAMBDA g : g.t = "layout")
    IN  (IF ls = <<>> THEN <<>> ELSE DeclaredChain(LayoutPath(ls[Len(ls)].name)))
        \o <<f>>

\* what the walk w of one file writes when each <!content> it reaches
\* outside a skipped section writes inner
RECURSIVE OwnOutput(_, _, _, _)
OwnOutputStep(w, step, r, files, inner) ==
    (IF w.hf.elems[w.i].kind = "Content" /\ ~w.skipUntilNewMethod
     THEN inner ELSE step.bytes)
    \o OwnOutput(step.w, r, files, inner)

OwnOutput(w, r, files, inner) ==
    IF w.i > Len(w.hf.elems) THEN <<>>
    ELSE OwnOutputStep(w, WalkElem(w, r, files), r, files, inner)

\* a chain of files, outermost first, each one's <!content> replaced by the
\* output of the rest of the chain
RECURSIVE Nested(_, _, _)
Nested(chain, r, files) ==
    IF chain = <<>> THEN <<>>
    ELSE OwnOutput(Walk(Head(chain), <<>>), r, files, Nested(Tail(chain), r, files))

WithoutContent(hf) ==
    [hf EXCEPT !.elems = SelectSeq(@, LAMBDA e : e.kind # "Content")]

\* a chain with the <!content> elements of its innermost file taken out
InnermostWithoutContent(chain) ==
    [chain EXCEPT ![Len(chain)] = WithoutContent(@)]

\* what a chain of files, outermost first, is to write if all of it read and
\* wrote one mapping of variables: acc is the output and the mapping so far
RECURSIVE SharedWalk(_, _, _, _, _)
SharedWalk(elems, rest, r, skipping, acc) ==
    IF elems = <<>> THEN acc
    ELSE LET e == Head(elems)
         IN  IF e.kind = "Method"
             THEN SharedWalk(Tail(elems), rest, r, ~MethodMatches(e, r), acc)
             ELSE IF skipping THEN SharedWalk(Tail(elems), rest, r, skipping, acc)
             ELSE IF e.kind = "Content" /\ rest # <<>>
             THEN SharedWalk(Tail(elems), rest, r, skipping,
                             SharedWalk(Head(rest).elems, Tail(rest), r, FALSE, acc))
             ELSE IF e.kind = "Get"
             THEN SharedWalk(Tail(elems), rest, r, skipping,
                             [acc EXCEPT !.out = @ \o (IF e.text \in DOMAIN acc.env
                                                        THEN acc.env[e.text]
                                                        ELSE <<>>)])
             ELSE IF e.kind = "Set"
             THEN SharedWalk(Tail(elems), rest, r, skipping,
                             [acc EXCEPT !.env =
                                 IF e.values = <<>>
                                 THEN [n \in (DOMAIN @) \ {e.text} |-> @[n]]
                                 ELSE [n \in (DOMAIN @) \cup {e.text} |->
                                          IF n = e.text THEN e.values[1][2]
                                          ELSE @[n]]])
             ELSE IF e.kind = "Text"
             THEN SharedWalk(Tail(elems), rest, r, skipping,
                             [acc EXCEPT !.out = @ \o e.text])
             ELSE SharedWalk(Tail(elems), rest, r, skipping, acc)

SharedOutput(chain, r) ==
    SharedWalk(Head(chain).elems, Tail(chain), r, FALSE,
               [out |-> <<>>, env |-> NoVars]).out

\* the examples the claims give
Ex_methods ==
    <<FText(<<"a">>), FMethod(W_get, <<>>), FText(<<"b">>),
      FMethod(W_post, <<>>), FText(<<"c">>)>>

Ex_layout == <<FText(W_html), FContent, FText(W_ehtml)>>

Ex_wrapped == W_html \o W_pHi \o W_ehtml

----------------------------------------------------------------------------
(* The properties.                                                         *)

\* C1: a file in which "<!" does not occur is answered with its own bytes,
\* whatever the request method and KeepComments are; it parses to no element
\* when it is empty and to exactly one Text element, its bytes, otherwise.
C1_PlainTextVerbatim ==
    ~HasTagStart(fs[target]) =>
        /\ ~Crashed
        /\ pc = "done" =>
              /\ out = fs[target]
              /\ hfTop[1].layout = <<>>
              /\ hfTop[1].elems = IF fs[target] = <<>> THEN <<>>
                                  ELSE <<TextElem(fs[target])>>

C1_Witness ==
    /\ pc = "done"
    /\ fs[target] = <<"a"," ","<">>
    /\ req.method = W_POST
    /\ keep
    /\ out = fs[target]
    /\ Len(hfTop[1].elems) = 1

\* C2: in a file of text and <!method> tags, the text after <!method name
\* ...> up to the next <!method> is written exactly when name is the
\* request's method (letter case aside) and the tag's constraints match the
\* query, or name is "any"; a <!method> with no name opens a section no
\* request gets; the text before the first <!method> is always written and
\* the tags write nothing.  So "a<!method get>b<!method post>c" is "ab" for
\* GET and "ac" for POST.
C2_MethodSections ==
    KindsOf(Page) \subseteq {"text", "method"} =>
        /\ ~Crashed
        /\ pc = "done" =>
              /\ out = Expected(Page, req, FALSE, FALSE, NoVars)
              /\ Page = Ex_methods =>
                    out = IF req.method = W_GET THEN <<"a","b">> ELSE <<"a","c">>

C2_Witness ==
    /\ pc = "done"
    /\ Page = Ex_methods
    /\ req.method = W_POST
    /\ out = <<"a","c">>

\* C3 (as worded): the section of <!method name key... key=value...> is
\* written only for requests whose method is name and whose query has every
\* constrained key, with the given value for each key=value.
C3_ConstraintsAsWorded ==
    (pc = "done" /\ KindsOf(Page) \subseteq {"text", "method"}) =>
        out = Expected(Page, req, TRUE, FALSE, NoVars)

\* C4: a file that declares a layout is answered with the layout's output
\* in which the layout's <!content> is the file's own output, and so on up
\* a chain of layouts of any depth: "<html><!content></html>" around
\* "<p>Hi</p>" is "<html><p>Hi</p></html>".
C4_LayoutNesting ==
    pc = "done" =>
        /\ [n \in 1..Len(ChainOf(hfTop[1])) |-> ChainOf(hfTop[1])[n].fn]
              = DeclaredChain(target)
        /\ out = Nested(ChainOf(hfTop[1]), req, fs)
        /\ (tmpl = ChainFiles(1, <<FText(W_pHi)>>, <<Ex_layout>>, <<>>)
            /\ target = P_page) => out = Ex_wrapped

C4_Witness ==
    /\ pc = "done"
    /\ target = P_page
    /\ DeclaredChain(target) = <<LPath(2), LPath(1), P_page>>
    /\ tmpl[LPath(1)] = <<FLayout(LPath(2))>> \o Ex_layout
    /\ out = <<"a">> \o Ex_wrapped \o Ex_wrapped

\* C5: a <!content> with nothing to stand for writes nothing and is no
\* error: the answer is what it would be with the <!content> elements of the
\* innermost file taken out, and so is the answer for a layout requested by
\* its own URL, which ends with status 200.
C5_ContentAloneIsEmpty ==
    /\ pc = "done" =>
          /\ out = Nested(InnermostWithoutContent(ChainOf(hfTop[1])), req, fs)
          /\ status = 200
    /\ (DOMAIN tmpl = {P_page, LPath(1)} /\ target = LPath(1)) => ~Crashed

C5_Witness ==
    /\ pc = "done"
    /\ target = LPath(1)
    /\ tmpl[target] = Ex_layout
    /\ out = W_html \o W_ehtml

\* C6: in a file of text, <!method>, <!set> and <!get> tags, <!get name>
\* writes the first value word of the latest <!set name value...> before it
\* that was not in a skipped section, and nothing if there is none or a
\* later <!set name> cleared it.
C6_SetThenGet ==
    KindsOf(Page) \subseteq {"text", "method", "set", "get"} =>
        /\ ~Crashed
        /\ pc = "done" => out = Expected(Page, req, FALSE, FALSE, NoVars)

C6_Witness ==
    /\ pc = "done"
    /\ req.method = W_GET
    /\ Page = <<FSet(W_x, <<W_hello>>),
                FMethod(W_post, <<>>), FSet(W_x, <<W_w>>), FMethod(W_any, <<>>),
                FGet(W_x)>>
    /\ out = W_hello

\* C7 (as worded): the files of a layout chain read and write one mapping of
\* variables, so that a <!get> sees the latest <!set> rendered before it in
\* whichever file of the chain.
C7_VarsSharedByChain ==
    pc = "done" => out = SharedOutput(ChainOf(hfTop[1]), req)

\* C8: with KeepComments off, a file whose only "<!" are comment starts is
\* answered with its bytes less the comments, a comment running from "<!--"
\* to the first "-->" that begins two bytes later or more, or to the end of
\* the file; a comment gives no element, and each piece of text between
\* comments is a Text element of its own.
C8_CommentsDiscarded ==
    (~keep /\ CommentsOnly(fs[target])) =>
        /\ ~Crashed
        /\ pc = "done" =>
              /\ out = Concat(TextSegments(fs[target]))
              /\ hfTop[1].elems =
                    [n \in 1..Len(NonEmpty(TextSegments(fs[target]))) |->
                        TextElem(NonEmpty(TextSegments(fs[target]))[n])]

C8_Witness ==
    /\ pc = "done"
    /\ ~keep
    /\ fs[target] = <<"a">> \o T_comment \o <<" ","c"," ","-","-",">","b">>
    /\ out = <<"a","b">>
    /\ Len(hfTop[1].elems) = 2

\* C9: with KeepComments on, a file whose only "<!" are comment starts and
\* that is not empty parses to one Text element, its bytes, and is answered
\* with its bytes.
C9_CommentsKept ==
    (keep /\ CommentsOnly(fs[target]) /\ fs[target] # <<>>) =>
        /\ ~Crashed
        /\ pc = "done" =>
              /\ hfTop[1].elems = <<TextElem(fs[target])>>
              /\ out = fs[target]

C9_Witness ==
    /\ pc = "done"
    /\ keep
    /\ fs[target] = T_comment \o <<" ","c"," ","-","-",">","a">> \o T_comment
    /\ hfTop[1].elems = <<TextElem(fs[target])>>

\* C10: "<!doctype" in any letter case never starts a tag: a file whose
\* every "<!" is followed by "doctype" and that is not empty parses to one
\* Text element, its bytes, and is answered with its bytes; so does
\* "a<!DOCTYPE html>b<!DocType html>c".
C10_DoctypeIsText ==
    (DoctypeOnly(fs[target]) /\ fs[target] # <<>>) =>
        /\ ~Crashed
        /\ pc = "done" =>
              /\ hfTop[1].elems = <<TextElem(fs[target])>>
              /\ out = fs[target]

C10_Witness ==
    /\ pc = "done"
    /\ fs[target] = <<"a">> \o W_DOCTYPE \o W_SPhtml \o <<">","b">>
                    \o W_DocType \o W_SPhtml \o <<">","c">>
    /\ hfTop[1].elems = <<TextElem(fs[target])>>
    /\ out = fs[target]

----------------------------------------------------------------------------
(* Text around tags, and the tags that write something of the request.     *)

\* the bytes of the fragments of kind t, in order
BytesOfKind(frags, t) ==
    Concat([n \in 1..Len(frags) |-> IF frags[n].t = t THEN frags[n].b ELSE <<>>])

\* the texts of the Text elements, in order
TextOf(elems) ==
    Concat([n \in 1..Len(elems) |->
               IF elems[n].kind = "Text" THEN elems[n].text ELSE <<>>])

\* the kinds of fragment that are a well-formed tag the parser knows
TagKinds == {"data", "query", "url", "content", "get", "set"}

\* C11 (as worded): in a file of text and well-formed tags the parser knows,
\* with or without arguments, the texts of the Text elements put together
\* are the file without its tags, whitespace included.
C11_TextPreserved ==
    (KindsOf(Page) \subseteq TagKinds \cup {"text"} /\ hfTop # <<>>) =>
        TextOf(hfTop[1].elems) = BytesOfKind(Page, "text")

\* the first value given for key among the pairs vals, nothing if none
FirstOf(vals, key) ==
    LET S == SelectSeq(vals, LAMBDA pr : pr[1] = key)
    IN  IF S = <<>> THEN <<>> ELSE S[1][2]

\* the elements a file of text and <!data> fragments is to parse into: one
\* Text for each run of text, one Data for each <!data name>; acc is the run
\* of text so far
RECURSIVE ExpectedElems(_, _)
ExpectedElems(frags, acc) ==
    LET flush == IF acc = <<>> THEN <<>> ELSE <<TextElem(acc)>>
    IN  IF frags = <<>> THEN flush
        ELSE IF Head(frags).t = "text"
        THEN ExpectedElems(Tail(frags), acc \o Head(frags).b)
        ELSE flush \o <<Elem("Data", Head(frags).name, <<>>)>>
                   \o ExpectedElems(Tail(frags), <<>>)

\* what a file of text, <!data>, <!query> and <!url> fragments is to write
\* for the request r
RECURSIVE ExpectedTags(_, _)
ExpectedTags(frags, r) ==
    IF frags = <<>> THEN <<>>
    ELSE LET g == Head(frags)
         IN  (IF g.t = "data" THEN FirstOf(r.body \o r.query, g.name)
              ELSE IF g.t = "query"
              THEN (IF g.name = <<>> THEN r.rawQuery ELSE FirstOf(r.query, g.name))
              ELSE IF g.t = "url" THEN PathClean(r.path)
              ELSE g.b)
             \o ExpectedTags(Tail(frags), r)

\* C12: a file of text and <!data name> tags parses into one Data element
\* for each tag, between the Text elements of the text around it, and is
\* answered with the text and, for each tag, the first value the parsed form
\* (posted fields, then URL query) has for name, nothing when it has none.
C12_DataElement ==
    (KindsOf(Page) \subseteq {"text", "data"} /\ hfTop # <<>>) =>
        /\ hfTop[1].elems = ExpectedElems(Page, <<>>)
        /\ pc = "done" => out = ExpectedTags(Page, req)

\* "a<!data x>b" is Text, Data, Text and writes the posted x between a and b
C12_Witness ==
    /\ pc = "done"
    /\ Page = <<FText(<<"a">>), FData(W_x), FText(<<"b">>)>>
    /\ hfTop[1].elems = <<TextElem(<<"a">>), Elem("Data", W_x, <<>>), TextElem(<<"b">>)>>
    /\ req.method = W_POST
    /\ out = <<"a">> \o W_hello \o <<"b">>

\* the same file with no form at all is answered with "ab"
C12_WitnessNoForm ==
    /\ pc = "done"
    /\ Page = <<FText(<<"a">>), FData(W_x), FText(<<"b">>)>>
    /\ Form(req) = <<>>
    /\ out = <<"a","b">>

\* whether no text fragment holds whitespace
SpaceFree(frags) ==
    \A n \in 1..Len(frags) :
        frags[n].t = "text" => \A m \in 1..Len(frags[n].b) : ~IsSpace(frags[n].b[m])

\* C13: <!query key> writes the first value the URL query has for key and
\* nothing when the query has no such key; <!query> writes the query string
\* of the request as it was sent, escapes and all.  (Stated on files whose
\* text holds no whitespace, where the answer is the text and what the tags
\* write.)
C13_QueryValue ==
    (/\ KindsOf(Page) \subseteq {"text", "data", "query", "url"}
     /\ SpaceFree(Page)
     /\ pc = "done") =>
        out = ExpectedTags(Page, req)

\* "a<!query id><!query>" under ?id=a+b&id=7 is "a", the unescaped first id,
\* then the query string as sent
C13_Witness ==
    /\ pc = "done"
    /\ Page = <<FText(<<"a">>), FQuery(W_id), FQuery(<<>>)>>
    /\ req.rawQuery = <<"i","d","=","a","+","b","&","i","d","=","7">>
    /\ out = <<"a">> \o <<"a"," ","b">> \o req.rawQuery

\* a key the query does not have writes nothing
C13_WitnessNoKey ==
    /\ pc = "done"
    /\ Page = <<FText(<<"a">>), FQuery(W_id), FText(<<"b">>)>>
    /\ ~Has(req.query, W_id)
    /\ req.query # <<>>
    /\ out = <<"a","b">>

----------------------------------------------------------------------------
(* The router: ServeHTTP from its first line to the call that answers the  *)
(* request.  Paths are written from the content root, which is <<>>; the   *)
(* directories of a content root are the ones its files lie in.            *)

W_htex      == <<".","h","t","e","x">>
W_html_ext  == <<".","h","t","m","l">>
W_index     == <<"/","i","n","d","e","x">>
W_wildcard  == <<"/","_",".","h","t","e","x">>
W_wellKnown == <<"/",".","w","e","l","l","-","k","n","o","w","n">>
W_slashDot  == <<"/",".">>
W_indexPage == <<"/","i","n","d","e","x",".","h","t","m","l">>

MSG_404 == <<"4","0","4"," ","p","a","g","e"," ","n","o","t"," ","f","o","u","n","d">> \o <<"\n">>

\* the Content-Type http.ServeFile gives a file that is not .html: by its
\* extension or, failing that, by its first bytes
CT_byFile == "by extension or content"

HasSuffix(s, p) == Len(s) >= Len(p) /\ SubSeq(s, Len(s) - Len(p) + 1, Len(s)) = p

\* strings.Contains
Contains(s, p) == \E n \in 1..(Len(s) - Len(p) + 1) : SubSeq(s, n, n + Len(p) - 1) = p

\* path.Ext: the suffix from the last '.' of the last element on, <<>> if none
Ext(fn) ==
    LET S == {n \in 1..Len(fn) :
                 fn[n] = "." /\ \A m \in n..Len(fn) : fn[m] # "/"}
    IN  IF S = {} THEN <<>>
        ELSE SubSeq(fn, CHOOSE n \in S : \A m \in S : m <= n, Len(fn))

\* path.Join(h.localRoot, url) for a clean rooted url
JoinRoot(url) == IF url = <<"/">> THEN <<>> ELSE url

\* os.Stat(fn) answers a regular file, a directory, or nothing
IsRegular(files, fn) == fn \in DOMAIN files

IsDir(files, fn) ==
    /\ fn \notin DOMAIN files
    /\ \/ fn = <<>>
       \/ \E f \in DOMAIN files : HasPrefix(f, fn \o <<"/">>)

\* the answer the router settles on: which call answers and with which file
Route(kind, fn) == [kind |-> kind, fn |-> fn]

\* the test as it would be if ".well-known" were not let through
Hidden_noException(url) == Contains(url, W_slashDot)

\* "strings.Contains(url, "/.") && !strings.HasPrefix(url, "/.well-known")"
Hidden(url) == Contains(url, W_slashDot) /\ ~HasPrefix(url, W_wellKnown)

\* as it would be with the .html file tried first
ResolveTarget_htmlFirst(files, fn) ==
    IF IsRegular(files, fn \o W_html_ext) THEN Route("html", fn \o W_html_ext)
    ELSE IF IsRegular(files, fn \o W_htex) THEN Route("dynamic", fn \o W_htex)
    ELSE IF IsRegular(files, Dir(fn) \o W_wildcard)
    THEN Route("wildcard", Dir(fn) \o W_wildcard)
    ELSE Route("notfound", <<>>)

\* as it would be without the wildcard
ResolveTarget_noWildcard(files, fn) ==
    IF IsRegular(files, fn \o W_htex) THEN Route("dynamic", fn \o W_htex)
    ELSE IF IsRegular(files, fn \o W_html_ext) THEN Route("html", fn \o W_html_ext)
    ELSE Route("notfound", <<>>)

\* the steps of ServeHTTP after "Directory files": fn is the target
ResolveTarget(files, fn) ==
    IF IsRegular(files, fn \o W_htex) THEN Route("dynamic", fn \o W_htex)
    ELSE IF IsRegular(files, Dir(fn) \o W_wildcard)
    THEN Route("wildcard", Dir(fn) \o W_wildcard)
    ELSE IF IsRegular(files, fn \o W_html_ext) THEN Route("html", fn \o W_html_ext)
    ELSE Route("notfound", <<>>)

\* as it would be with every target that is not a file taken for a directory
ResolveFile_indexAlways(files, fn) ==
    IF IsRegular(files, fn) THEN Route("static", fn)
    ELSE ResolveTarget(files, fn \o W_index)

\* the steps from "Static files" on; a root that is "." is re-targeted to
\* "index" by the "base == "."" test, every other directory by the
\* "Directory files" step, to the same effect
ResolveFile(files, fn) ==
    IF IsRegular(files, fn) THEN Route("static", fn)
    ELSE IF IsDir(files, fn) THEN ResolveTarget(files, fn \o W_index)
    ELSE ResolveTarget(files, fn)

\* as it would be without the test of the extension
ResolveOn_noExtTest(files, url, fn) ==
    IF Hidden(url) THEN Route("notfound", <<>>)
    ELSE ResolveFile(files, fn)

\* ServeHTTP up to the call that answers, for the request path rpath
ResolveOn(files, url, fn) ==
    IF Ext(fn) = W_htex THEN Route("notfound", <<>>)
    ELSE IF Hidden(url) THEN Route("notfound", <<>>)
    ELSE ResolveFile(files, fn)

Resolve(files, rpath) == ResolveOn(files, PathClean(rpath), JoinRoot(PathClean(rpath)))

\* http.NotFound(w, r)
RouteNotFound ==
    /\ pc = "route"
    /\ Resolve(fs, req.path).kind = "notfound"
    /\ status' = 404
    /\ hdr' = CT_plain
    /\ out' = MSG_404
    /\ pc' = "done"
    /\ UNCHANGED <<logw, logged, walk, calls, noread, chunk, fs, tmpl, keep, req, target, pstack, rstack, hfTop>>

MSG_403 == <<"4","0","3"," ","F","o","r","b","i","d","d","e","n","\n">>

\* http.ServeFile(w, r, fn) for a regular file fn and a request without
\* conditions or ranges: a request path ending in "/index.html" is
\* redirected to "./", a file that may not be read is answered 403, any
\* other with its bytes
ServeFileOn(r, fn, ctype) ==
    IF HasSuffix(r.path, W_indexPage)
    THEN /\ status' = 301
         /\ out' = <<>>
         /\ hdr' = ctype
    ELSE IF ~CanOpen(fn)
    THEN /\ status' = 403
         /\ out' = MSG_403
         /\ hdr' = CT_plain
    ELSE /\ status' = 200
         /\ out' = fs[fn]
         /\ hdr' = IF ctype # "" THEN ctype
                   ELSE IF Ext(fn) = W_html_ext THEN CT_html ELSE CT_byFile

RouteStaticOn(rt) ==
    /\ rt.kind \in {"static", "html"}
    /\ target' = rt.fn
    /\ ServeFileOn(req, rt.fn, IF rt.kind = "html" THEN CT_html ELSE "")

RouteStatic ==
    /\ pc = "route"
    /\ RouteStaticOn(Resolve(fs, req.path))
    /\ pc' = "done"
    /\ UNCHANGED <<logw, logged, walk, calls, noread, chunk, fs, tmpl, keep, req, pstack, rstack, hfTop>>

\* a .htex file answers: the header is set and h.parseHtexFile(w, r, fn) begins
RouteDynamicOn(rt) ==
    /\ rt.kind \in {"dynamic", "wildcard"}
    /\ CanOpen(rt.fn)
    /\ target' = rt.fn
    /\ pstack' = <<Frame(rt.fn, fs[rt.fn])>>

RouteDynamic ==
    /\ pc = "route"
    /\ RouteDynamicOn(Resolve(fs, req.path))
    /\ hdr' = CT_html
    /\ pc' = "parse"
    /\ UNCHANGED <<logw, logged, walk, calls, noread, chunk, fs, tmpl, keep, req, rstack, hfTop, out, status>>

RouteNext ==
    \/ RouteNotFound
    \/ RouteStatic
    \/ RouteDynamic
    \/ Next

\* the .htex file the router chose does not open: parseHtexFile answers nil
\* and the error, "hf, _ :=" drops the error, and ServeHTTP returns with the
\* header set and nothing written, which the server sends as 200 and no body
RouteOpenFailOn(rt) ==
    /\ rt.kind \in {"dynamic", "wildcard"}
    /\ ~CanOpen(rt.fn)
    /\ target' = rt.fn
    /\ status' = 200
    /\ out' = <<>>
    /\ hdr' = CT_html

RouteOpenFail ==
    /\ pc = "route"
    /\ RouteOpenFailOn(Resolve(fs, req.path))
    /\ pc' = "done"
    /\ UNCHANGED <<logw, logged, walk, calls, noread, chunk, fs, tmpl, keep, req, pstack, rstack, hfTop>>

\* ServeHTTP over a content root some files of which do not open
OpenNext ==
    \/ RouteOpenFail
    \/ RouteNext

\* the files a content root is made of: at most MaxFiles of these
MaxFiles == 3

P_foo        == <<"/","f","o","o">>
P_fooHtex    == <<"/","f","o","o",".","h","t","e","x">>
P_fooHtml    == <<"/","f","o","o",".","h","t","m","l">>
P_fooIndex   == <<"/","f","o","o","/","i","n","d","e","x",".","h","t","e","x">>
P_fooWild    == <<"/","f","o","o","/","_",".","h","t","e","x">>
P_fooBar     == <<"/","f","o","o","/","b","a","r",".","h","t","e","x">>
P_fooHidden  == <<"/","f","o","o","/",".","h">>
P_wild       == <<"/","_",".","h","t","e","x">>
P_indexHtex  == <<"/","i","n","d","e","x",".","h","t","e","x">>
P_indexHtml  == <<"/","i","n","d","e","x",".","h","t","m","l">>
P_env        == <<"/",".","e","n","v">>
P_wkKey      == <<"/",".","w","e","l","l","-","k","n","o","w","n","/","k">>
P_wkHidden   == <<"/",".","w","e","l","l","-","k","n","o","w","n","/",".","s">>
P_wkOther    == <<"/",".","w","e","l","l","-","k","n","o","w","n","x","/","k">>

\* what each file holds: static files a byte of their own, .htex files text
\* and <!url>, one of them under the layout /index.htex, one of them cut
\* short inside "<!--"
SiteFiles ==
    (P_foo :> <<FText(<<"1">>)>>) @@
    (P_fooHtex :> <<FText(<<"2">>), FUrl>>) @@
    (P_fooHtml :> <<FText(<<"3">>)>>) @@
    (P_fooIndex :> <<FLayout(P_indexHtex), FText(<<"4">>)>>) @@
    (P_fooWild :> <<FText(<<"5">>), FUrl>>) @@
    (P_fooBar :> <<FRaw(<<"<","!","-">>)>>) @@
    (P_fooHidden :> <<FText(<<"6">>)>>) @@
    (P_wild :> <<FText(<<"7">>), FUrl>>) @@
    (P_indexHtex :> <<FText(<<"8">>), FContent, FUrl>>) @@
    (P_indexHtml :> <<FText(<<"9">>)>>) @@
    (P_env :> <<FText(<<"e">>)>>) @@
    (P_wkKey :> <<FText(<<"k">>)>>) @@
    (P_wkHidden :> <<FText(<<"s">>)>>) @@
    (P_wkOther :> <<FText(<<"x">>)>>)

\* no file lies under a path that is a file
Consistent(S) ==
    \A f \in S, g \in S : ~HasPrefix(g, f \o <<"/">>)

\* the request paths
SitePaths ==
    {<<"/">>, P_foo, P_foo \o <<"/">>, <<"/">> \o P_foo \o <<"/","/">>,
     P_fooHtex, P_fooHtml, P_fooIndex, P_foo \o W_index,
     <<"/","f","o","o","/","b","a","r">>, <<"/","f","o","o","/","b","a","r","/","b","a","z">>, P_fooBar, P_fooHidden,
     P_wild, <<"/","_">>, <<"/","i","n","d","e","x">>, P_indexHtml, P_indexHtex,
     P_env, P_wkKey, P_wkHidden, P_wkOther, P_nope}

RouteInit ==
    /\ \E S \in SUBSET DOMAIN SiteFiles :
          /\ Cardinality(S) <= MaxFiles
          /\ Consistent(S)
          /\ tmpl = [f \in S |-> SiteFiles[f]]
    /\ \E u \in SitePaths : req = RequestTo(W_GET, u, <<>>, <<>>)
    /\ fs = [f \in DOMAIN tmpl |-> SrcBytes(tmpl[f])]
    /\ keep = FALSE
    /\ target = <<>>
    /\ pc = "route"
    /\ pstack = <<>>
    /\ rstack = <<>>
    /\ hfTop = <<>>
    /\ out = <<>>
    /\ status = 0
    /\ hdr = ""
    /\ chunk = 0
    /\ noread = {}
    /\ walk = NoWalk
    /\ calls = <<>>
    /\ logw = NoLog
    /\ logged = <<>>

RouteSpec == RouteInit /\ [][RouteNext]_vars

----------------------------------------------------------------------------
(* What the properties of the router are stated with.                      *)

\* how the request was answered
AnsweredNotFound == pc = "done" /\ status = 404 /\ out = MSG_404

ServedStatic == pc = "done" /\ hfTop = <<>> /\ status # 404

\* a .htex file was chosen: it is being parsed or rendered, or was
Rendered == pc \in {"parse", "render", "failed", "panicked"}
               \/ (pc = "done" /\ hfTop # <<>>)

Routed == pc # "route"

\* the request path as the router reads it
Url == PathClean(req.path)

\* C14: a request whose path ends in ".htex" is answered 404 whatever the
\* content root holds, and no file whose name ends in ".htex" is ever handed
\* to http.ServeFile.
C14_HtexSourceNeverServed ==
    /\ (Routed /\ HasSuffix(Url, W_htex)) => AnsweredNotFound
    /\ ServedStatic => ~HasSuffix(target, W_htex)

\* /foo/index.htex is asked for, the file is there, the answer is 404
C14_Witness ==
    /\ req.path = P_fooIndex
    /\ P_fooIndex \in DOMAIN fs
    /\ AnsweredNotFound

W_dotWellKnown == Tail(W_wellKnown)

\* the segment of the path u that starts at index n
SegmentAt(u, n) ==
    LET E == {m \in n..Len(u) : m = Len(u) \/ u[m + 1] = "/"}
    IN  SubSeq(u, n, CHOOSE m \in E : \A k \in E : m <= k)

\* some segment of u starts with '.' and is not ".well-known"
HasHiddenSegment(u) ==
    \E n \in 1..(Len(u) - 1) :
        /\ u[n] = "/"
        /\ u[n + 1] = "."
        /\ SegmentAt(u, n + 1) # W_dotWellKnown

\* C15 (as worded): a request is answered 404 whenever a segment of its path
\* starts with '.', the segment ".well-known" being the only one let through.
C15_HiddenNeverPublished ==
    (Routed /\ HasHiddenSegment(Url)) => AnsweredNotFound

\* what the content root holds
FileExists(f) == f \in DOMAIN fs

DirExists(d) == d = <<>> \/ \E f \in DOMAIN fs : HasPrefix(f, d \o <<"/">>)

\* the request passes the two tests that refuse a path outright
PassesRejection == ~HasSuffix(Url, W_htex) /\ ~Hidden(Url)

\* the file the request path names, and the target after a directory has
\* been re-targeted to its index
NamedFile == IF Url = <<"/">> THEN <<>> ELSE Url

TargetOf(t) == IF ~FileExists(t) /\ DirExists(t) THEN t \o W_index ELSE t

\* the answers of the router
StaticWith(f) == ServedStatic /\ target = f /\ (status = 200 => out = fs[f])

RenderedWith(f) == Rendered /\ target = f /\ (pc # "failed" => hdr = CT_html)

\* the precedence below the static file: t is the target
PrecedenceOn(t) ==
    IF FileExists(t \o W_htex) THEN RenderedWith(t \o W_htex)
    ELSE IF FileExists(Dir(t) \o W_wildcard) THEN RenderedWith(Dir(t) \o W_wildcard)
    ELSE IF FileExists(t \o W_html_ext) THEN StaticWith(t \o W_html_ext)
    ELSE AnsweredNotFound

\* C16: a request that passes the rejection step is answered by the first
\* of these that applies: the regular file it names, served as it is; with a
\* directory re-targeted to <dir>/index, <target>.htex rendered with
\* Content-Type text/html; charset=utf-8; <directory of target>/_.htex
\* rendered; <target>.html served; else 404.
C16_RouterPrecedence ==
    (Routed /\ PassesRejection) =>
        IF FileExists(NamedFile) THEN StaticWith(NamedFile)
        ELSE PrecedenceOn(TargetOf(NamedFile))

\* foo, foo.htex and foo.html all exist: /foo is answered with the bytes of foo
C16_Witness ==
    /\ Url = P_foo
    /\ DOMAIN fs = {P_foo, P_fooHtex, P_fooHtml}
    /\ ServedStatic
    /\ target = P_foo
    /\ out = fs[P_foo]

\* the wildcard of a directory answers before the index.html of that directory
C16_WitnessWildcard ==
    /\ Url = <<"/">>
    /\ DOMAIN fs = {P_wild, P_indexHtml}
    /\ pc = "done"
    /\ target = P_wild
    /\ hdr = CT_html

W_indexHtex == W_index \o W_htex

\* C17 (as worded): whenever <name>.htex exists, a request for /<name> or
\* /<name>/ is answered by rendering it, and whenever <name>/index.htex
\* exists, such a request is answered by rendering that.
C17_HtexAlwaysReachable ==
    (Routed /\ PassesRejection /\ Url # <<"/">>) =>
        /\ FileExists(Url \o W_htex) => RenderedWith(Url \o W_htex)
        /\ FileExists(Url \o W_indexHtex) => RenderedWith(Url \o W_indexHtex)

\* C17 (amended): a request for /<name> or /<name>/ is answered by rendering
\* <name>.htex whenever that file exists and <name> itself is neither a file
\* nor a directory, and by rendering <name>/index.htex whenever that file
\* exists.
C17_HtexReachable ==
    (Routed /\ PassesRejection /\ Url # <<"/">>) =>
        /\ (FileExists(Url \o W_htex) /\ ~FileExists(Url) /\ ~DirExists(Url)) =>
               RenderedWith(Url \o W_htex)
        /\ FileExists(Url \o W_indexHtex) => RenderedWith(Url \o W_indexHtex)

\* /foo/ is answered by foo.htex, which writes "2" and the path asked for
C17_Witness ==
    /\ req.path = P_foo \o <<"/">>
    /\ FileExists(P_fooHtex)
    /\ pc = "done"
    /\ target = P_fooHtex
    /\ status = 200
    /\ out = <<"2">> \o P_foo

\* the directories the path t lies under, the content root included
AncestorsOf(t) == {SubSeq(t, 1, n - 1) : n \in {m \in 1..Len(t) : t[m] = "/"}}

\* the directory the path t lies in
ParentOf(t) ==
    CHOOSE d \in AncestorsOf(t) : \A e \in AncestorsOf(t) : Len(e) <= Len(d)

\* no static file and no <target>.htex answers the request
NoMoreSpecific ==
    /\ ~FileExists(NamedFile)
    /\ ~FileExists(TargetOf(NamedFile) \o W_htex)

\* a wildcard file answers, and what it writes is written for the path that
\* was asked for
WildcardAnswers(f) ==
    /\ RenderedWith(f)
    /\ pc = "done" => out = ExpectedTags(tmpl[f], req)

\* C18 (as worded): a request with no more specific match is answered by a
\* _.htex whenever a directory its path lies under has one, at whatever
\* depth above the path.
C18_WildcardAtAnyDepth ==
    (/\ Routed
     /\ PassesRejection
     /\ NoMoreSpecific
     /\ \E d \in AncestorsOf(TargetOf(NamedFile)) : FileExists(d \o W_wildcard)) =>
        \E d \in AncestorsOf(TargetOf(NamedFile)) : WildcardAnswers(d \o W_wildcard)

\* C18 (amended): a request with no more specific match is answered by the
\* _.htex of the directory its target lies in, when there is one, rendered
\* for the path that was asked for; the _.htex of a directory further up
\* answers nothing below that directory's own entries.
C18_WildcardOfOwnDirectory ==
    (Routed /\ PassesRejection /\ NoMoreSpecific) =>
        IF FileExists(ParentOf(TargetOf(NamedFile)) \o W_wildcard)
        THEN WildcardAnswers(ParentOf(TargetOf(NamedFile)) \o W_wildcard)
        ELSE ~Rendered

\* /foo/bar is answered by foo/_.htex, which writes "5" and the path asked for
C18_Witness ==
    /\ Url = P_foo \o <<"/","b","a","r">>
    /\ FileExists(P_fooWild)
    /\ pc = "done"
    /\ target = P_fooWild
    /\ out = <<"5">> \o Url

\* /foo/bar/baz is not: foo/_.htex is there and the answer is 404
C18_WitnessDeeper ==
    /\ Url = P_foo \o <<"/","b","a","r","/","b","a","z">>
    /\ FileExists(P_fooWild)
    /\ AnsweredNotFound

----------------------------------------------------------------------------
(* Concurrent requests.  net/http runs ServeHTTP once per request, each    *)
(* call on a goroutine of its own with its own w and r.  The handling of   *)
(* one request is the record rq of what the call holds: its request, the   *)
(* file chosen, where it stands, the active calls of parseHtexScanner      *)
(* (each with the Scanner and the captured variables of its own            *)
(* splitHtexTokens closure), the active walks of writeHtexFile (each with  *)
(* its own vars and skipUntilNewMethod), and the response.  Advance is one *)
(* step of that call: the actions above, as a function of rq.              *)

MaxReqs  == 2    \* requests in flight together

Reqs == 1..MaxReqs

Handling(r) ==
    [req |-> r, target |-> <<>>, pc |-> "route", pstack |-> <<>>, rstack |-> <<>>,
     hfTop |-> <<>>, out |-> <<>>, status |-> 0, hdr |-> ""]

\* RouteNotFound, RouteStatic, RouteDynamic
AdvanceRoute(rq, files, rt) ==
    IF rt.kind = "notfound"
    THEN [rq EXCEPT !.status = 404, !.hdr = CT_plain, !.out = MSG_404, !.pc = "done"]
    ELSE IF rt.kind \in {"static", "html"}
    THEN IF HasSuffix(rq.req.path, W_indexPage)
         THEN [rq EXCEPT !.target = rt.fn, !.status = 301, !.pc = "done",
                         !.hdr = IF rt.kind = "html" THEN CT_html ELSE ""]
         ELSE [rq EXCEPT !.target = rt.fn, !.status = 200, !.pc = "done",
                         !.out = files[rt.fn],
                         !.hdr = IF rt.kind = "html" \/ Ext(rt.fn) = W_html_ext
                                 THEN CT_html ELSE CT_byFile]
    ELSE [rq EXCEPT !.target = rt.fn, !.hdr = CT_html, !.pc = "parse",
                    !.pstack = <<Frame(rt.fn, files[rt.fn])>>]

\* ParseReturn, ParseDone
AdvanceParseEnd(rq, f) ==
    IF Len(rq.pstack) > 1
    THEN [rq EXCEPT !.pstack =
              SetTop(Pop(rq.pstack),
                     [Top(Pop(rq.pstack)) EXCEPT
                         !.layout = <<HtexFile(f.fn, f.elems, f.layout)>>])]
    ELSE [rq EXCEPT !.hfTop = <<HtexFile(f.fn, f.elems, f.layout)>>,
                    !.rstack = <<writeHtexFile(HtexFile(f.fn, f.elems, f.layout),
                                               f.layout, <<>>)>>,
                    !.pstack = <<>>,
                    !.pc = "render"]

\* ParseStep, ParseLayout, ParseLayoutFail, ParsePanic, and the two above
AdvanceParse(rq, files, r) ==
    IF r.kind = "continue" THEN [rq EXCEPT !.pstack = SetTop(rq.pstack, r.f)]
    ELSE IF r.kind = "call" /\ r.callFn \in DOMAIN files
    THEN [rq EXCEPT !.pstack = Append(SetTop(rq.pstack, r.f),
                                      Frame(r.callFn, files[r.callFn]))]
    ELSE IF r.kind = "call"
    THEN [rq EXCEPT !.out = rq.out \o Concat([n \in 1..Len(rq.pstack) |-> MSG_500]),
                    !.status = IF rq.status = 0 THEN 500 ELSE rq.status,
                    !.hdr = CT_plain,
                    !.pc = "failed",
                    !.pstack = <<>>]
    ELSE IF r.kind = "panic" THEN [rq EXCEPT !.pc = "panicked", !.pstack = <<>>]
    ELSE AdvanceParseEnd(rq, r.f)

\* RenderStep
AdvanceWalk(rq, r) ==
    [rq EXCEPT !.out = rq.out \o r.bytes,
               !.status = IF rq.status = 0 /\ r.bytes # <<>> THEN 200 ELSE rq.status,
               !.rstack = SetTop(rq.rstack, r.w) \o r.call]

\* RenderStep, RenderReturn, RenderDone
AdvanceRender(rq, files) ==
    IF Top(rq.rstack).i <= Len(Top(rq.rstack).hf.elems)
    THEN AdvanceWalk(rq, WalkElem(Top(rq.rstack), rq.req, files))
    ELSE IF Len(rq.rstack) > 1 THEN [rq EXCEPT !.rstack = Pop(rq.rstack)]
    ELSE [rq EXCEPT !.rstack = <<>>, !.pc = "done",
                    !.status = IF rq.status = 0 THEN 200 ELSE rq.status]

Advance(rq, files, k) ==
    IF rq.pc = "route" THEN AdvanceRoute(rq, files, Resolve(files, rq.req.path))
    ELSE IF rq.pc = "parse"
    THEN AdvanceParse(rq, files, ParseIter(Top(rq.pstack), k))
    ELSE IF rq.pc = "render" THEN AdvanceRender(rq, files)
    ELSE rq

\* the handling of the one request of Spec and RouteSpec, as a record
Rec ==
    [req |-> req, target |-> target, pc |-> pc, pstack |-> pstack,
     rstack |-> rstack, hfTop |-> hfTop, out |-> out, status |-> status, hdr |-> hdr]

\* every step of Spec and of RouteSpec is the step Advance takes
AdvanceAgrees == [][Rec' = Advance(Rec, fs, keep)]_vars

\* the handling of request i, the variables being one value per request
RecOf(i) ==
    [req |-> req[i], target |-> target[i], pc |-> pc[i], pstack |-> pstack[i],
     rstack |-> rstack[i], hfTop |-> hfTop[i], out |-> out[i],
     status |-> status[i], hdr |-> hdr[i]]

\* as it would be if the calls wrote to one ResponseWriter held in common
Writer_shared(i) == 1

\* the ResponseWriter the call for request i writes to: its parameter w,
\* handed down to parseHtexFile, writeHtexFile and the content continuation
Writer(i) == i

\* the call for request i takes the step new: what it writes goes to its
\* ResponseWriter, all else is its own
ConcStepOn(i, new) ==
    /\ req' = [req EXCEPT ![i] = new.req]
    /\ target' = [target EXCEPT ![i] = new.target]
    /\ pc' = [pc EXCEPT ![i] = new.pc]
    /\ pstack' = [pstack EXCEPT ![i] = new.pstack]
    /\ rstack' = [rstack EXCEPT ![i] = new.rstack]
    /\ hfTop' = [hfTop EXCEPT ![i] = new.hfTop]
    /\ status' = [status EXCEPT ![Writer(i)] = new.status]
    /\ hdr' = [hdr EXCEPT ![Writer(i)] = new.hdr]
    /\ out' = [out EXCEPT ![Writer(i)] =
                  @ \o SubSeq(new.out, Len(out[i]) + 1, Len(new.out))]
    /\ UNCHANGED <<logw, logged, walk, calls, noread, chunk, fs, tmpl, keep>>

ConcRoute(i) ==
    /\ pc[i] = "route"
    /\ ConcStepOn(i, Advance(RecOf(i), fs, keep))

ConcParse(i) ==
    /\ pc[i] = "parse"
    /\ ConcStepOn(i, Advance(RecOf(i), fs, keep))

ConcRender(i) ==
    /\ pc[i] = "render"
    /\ ConcStepOn(i, Advance(RecOf(i), fs, keep))

ConcNext ==
    \E i \in Reqs :
        \/ ConcRoute(i)
        \/ ConcParse(i)
        \/ ConcRender(i)

P_pHtex == <<"/","p",".","h","t","e","x">>
P_cHtex == <<"/","c",".","h","t","e","x">>
P_lHtex == <<"/","l",".","h","t","e","x">>
P_s     == <<"/","s">>
P_c     == <<"/","c">>

\* a content root: a page with a variable, method sections and the query, a
\* page under a layout, and a static file
ConcSite ==
    (P_pHtex :> <<FSet(W_x, <<W_v>>), FMethod(W_post, <<>>), FGet(W_x),
                  FMethod(W_any, <<>>), FQuery(W_id)>>) @@
    (P_cHtex :> <<FLayout(Tail(P_lHtex)), FText(<<"c">>)>>) @@
    (P_lHtex :> <<FText(<<"a">>), FContent>>) @@
    (P_s :> <<FText(<<"1">>)>>)

ConcRequests ==
    {RequestTo(W_GET, P_page, << <<W_id, W_7>> >>, <<>>),
     RequestTo(W_POST, P_page, << <<W_id, W_42>> >>, <<>>),
     RequestTo(W_GET, P_c, <<>>, <<>>),
     RequestTo(W_GET, P_s, <<>>, <<>>)}

ConcInit ==
    /\ tmpl = ConcSite
    /\ fs = [f \in DOMAIN tmpl |-> SrcBytes(tmpl[f])]
    /\ keep = FALSE
    /\ req \in [Reqs -> ConcRequests]
    /\ target = [i \in Reqs |-> Handling(req[i]).target]
    /\ pc = [i \in Reqs |-> Handling(req[i]).pc]
    /\ pstack = [i \in Reqs |-> Handling(req[i]).pstack]
    /\ rstack = [i \in Reqs |-> Handling(req[i]).rstack]
    /\ hfTop = [i \in Reqs |-> Handling(req[i]).hfTop]
    /\ out = [i \in Reqs |-> Handling(req[i]).out]
    /\ status = [i \in Reqs |-> Handling(req[i]).status]
    /\ hdr = [i \in Reqs |-> Handling(req[i]).hdr]
    /\ chunk = 0
    /\ noread = {}
    /\ walk = NoWalk
    /\ calls = <<>>
    /\ logw = NoLog
    /\ logged = <<>>

ConcSpec == ConcInit /\ [][ConcNext]_vars

\* whether the handling rq is met on the way from cur when the call runs
\* with no other call about
RECURSIVE OnSoloRun(_, _, _, _)
OnSoloRun(rq, cur, files, k) ==
    \/ rq = cur
    \/ /\ cur.pc \in {"route", "parse", "render"}
       /\ OnSoloRun(rq, Advance(cur, files, k), files, k)

\* where the call ends when it runs with no other call about
RECURSIVE SoloEnd(_, _, _)
SoloEnd(cur, files, k) ==
    IF cur.pc \in {"route", "parse", "render"}
    THEN SoloEnd(Advance(cur, files, k), files, k)
    ELSE cur

C19_Witness ==
    /\ target[1] = P_pHtex /\ target[2] = P_pHtex
    /\ req[1].method = W_GET /\ req[2].method = W_POST
    /\ pc[1] = "done" /\ pc[2] = "done"
    /\ out[1] = W_7
    /\ out[2] = W_v \o W_42

----------------------------------------------------------------------------
(* Files that come in pieces: the reader of the Scanner delivers at most   *)
(* chunk bytes a Read, so the split function is shown the beginning of     *)
(* what is left of the file, with atEOF false, and asked again with more   *)
(* when it answers (0, nil, nil).                                          *)

MaxChunk == 2    \* most bytes a Read delivers, over the files read in short pieces

\* a piece that holds "<!layout" and the space after it
LongChunk == Len(T_layout) + 1

ChunkSizes == (1..MaxChunk) \cup {LongChunk}

ChunkInit ==
    /\ \/ InitText
       \/ InitComment
       \/ InitDoctype
       \/ InitChain
       \/ InitBrokenChain
    /\ fs = [f \in DOMAIN tmpl |-> SrcBytes(tmpl[f])]
    /\ chunk \in ChunkSizes
    /\ noread = {}
    /\ walk = NoWalk
    /\ calls = <<>>
    /\ logw = NoLog
    /\ logged = <<>>
    /\ pc = "parse"
    /\ pstack = <<Frame(target, fs[target])>>
    /\ rstack = <<>>
    /\ hfTop = <<>>
    /\ out = <<>>
    /\ status = 0
    /\ hdr = CT_html

ChunkSpec == ChunkInit /\ [][Next]_vars

\* C20 (as worded): the tokens the Scanner gives for a file are the same
\* whether the file is read whole or in pieces of chunk bytes.
C20_TokensWhateverTheCut ==
    (pc = "parse" /\ Top(pstack).sc = ScOver(chunk)) =>
        TokensFrom(ScOver(chunk), Top(pstack).content, keep)
            = TokensFrom(ScOver(0), Top(pstack).content, keep)

----------------------------------------------------------------------------
(* The order in which the bytes of an answer are written.                  *)

\* the file hf cut after its first n elements
PrefixOf(hf, n) == [hf EXCEPT !.elems = SubSeq(@, 1, n)]

\* the files the walks of rstack are walking, outermost first, followed by
\* the files still to be rendered inside the innermost
WalkedChain == ChainOf(hfTop[1])

\* what the n-th walk of rstack has written itself and had written at the
\* <!content> slots it is through with: its elements before the one it
\* stands at, less the <!content> a walk inside it is still rendering
WrittenBy(n) ==
    OwnOutput(Walk(PrefixOf(WalkedChain[n],
                            IF n < Len(rstack) THEN rstack[n].i - 2
                            ELSE rstack[n].i - 1), <<>>),
              req, fs,
              Nested(SubSeq(WalkedChain, n + 1, Len(WalkedChain)), req, fs))

\* the answer so far is the markup of each open walk up to where it stands,
\* outermost first
InDocumentOrder ==
    pc = "render" =>
        /\ \A n \in 1..Len(rstack) : rstack[n].hf = WalkedChain[n]
        /\ out = Concat([n \in 1..Len(rstack) |-> WrittenBy(n)])

IsPrefix(a, b) == Len(a) <= Len(b) /\ SubSeq(b, 1, Len(a)) = a

\* C21: the bytes of an answer are written in document order.  Every step
\* of a render adds its bytes at the end of the answer, and at each moment
\* the answer is the layout's markup before the <!content> slot it stands
\* at, then what the page has written so far, a slot the layout is through
\* with having the page's whole method-filtered output once, the markup
\* after a slot coming only when the page's walk is over.
C21_DocumentOrder ==
    /\ [][pc = "render" => IsPrefix(out, out')]_vars
    /\ []InDocumentOrder

\* the layout "<html><!content></html>" stands after its slot: the page's
\* output is written once, after "<html>" and before "</html>"
C21_Witness ==
    /\ pc = "render"
    /\ tmpl = ChainFiles(1, <<FText(W_pHi)>>, <<Ex_layout>>, <<>>)
    /\ target = P_page
    /\ Len(rstack) = 1
    /\ rstack[1].i = 3
    /\ out = W_html \o W_pHi

\* the page's walk is under way inside a layout with two slots, at the second
C21_WitnessInside ==
    /\ pc = "render"
    /\ Len(rstack) = 2
    /\ rstack[1].hf.elems = <<TextElem(<<"a">>), Elem("Content", <<>>, <<>>),
                              Elem("Content", <<>>, <<>>)>>
    /\ rstack[1].i = 4
    /\ rstack[2].i = 2
    /\ out = <<"a">> \o W_pHi \o W_pHi

----------------------------------------------------------------------------
(* The <!method> tag with no name.                                         *)

\* the <!method> fragments with no name
IsBareMethod(g) == g.t = "method" /\ g.name = <<>>

HasBareMethod(frags) == \E n \in 1..Len(frags) : IsBareMethod(frags[n])

\* what a file of text and <!method> fragments is to write when a <!method>
\* with no name opens a section for every request (bareOpens) or for none
RECURSIVE ExpectedBare(_, _, _, _)
ExpectedBare(frags, r, bareOpens, skipping) ==
    IF frags = <<>> THEN <<>>
    ELSE LET g == Head(frags)
         IN  IF IsBareMethod(g)
             THEN ExpectedBare(Tail(frags), r, bareOpens, ~bareOpens)
             ELSE IF g.t = "method"
             THEN ExpectedBare(Tail(frags), r, bareOpens, ~SectionOpen(g, r, FALSE))
             ELSE IF skipping THEN ExpectedBare(Tail(frags), r, bareOpens, skipping)
             ELSE g.b \o ExpectedBare(Tail(frags), r, bareOpens, skipping)

\* the Method elements of a parsed file, in order
MethodElems(hf) == SelectSeq(hf.elems, LAMBDA e : e.kind = "Method")

MethodFrags(frags) == SelectSeq(frags, LAMBDA g : g.t = "method")

\* C22 (as worded): a <!method> with no name resets the filter: what follows
\* it, up to the next <!method>, is written for every request method.
C22_BareMethodResets ==
    (pc = "done" /\ KindsOf(Page) \subseteq {"text", "method"}
                 /\ HasBareMethod(Page)) =>
        out = ExpectedBare(Page, req, TRUE, FALSE)

\* C22 (amended): a <!method> with no name parses to a Method element with
\* an empty name and no constraints, which no request matches: what follows
\* it, up to the next <!method>, is written for no request method, and
\* <!method any> is what resets the filter.
C22_BareMethodSkips ==
    (KindsOf(Page) \subseteq {"text", "method"} /\ HasBareMethod(Page)) =>
        /\ ~Crashed
        /\ pc = "done" =>
              /\ out = ExpectedBare(Page, req, FALSE, FALSE)
              /\ Len(MethodElems(hfTop[1])) = Len(MethodFrags(Page))
              /\ \A n \in 1..Len(MethodFrags(Page)) :
                     IsBareMethod(MethodFrags(Page)[n]) =>
                         MethodElems(hfTop[1])[n] = Elem("Method", <<>>, <<>>)

\* "a<!method>b c" is "a" for a POST
C22_Witness ==
    /\ pc = "done"
    /\ Page = <<FText(<<"a">>), FMethod(<<>>, <<>>), FText(<<"b"," ","c">>)>>
    /\ req.method = W_POST
    /\ out = <<"a">>

\* "<!method get>b<!method>a" is "b" for a GET
C22_WitnessAfterMatch ==
    /\ pc = "done"
    /\ Page = <<FMethod(W_get, <<>>), FText(<<"b">>), FMethod(<<>>, <<>>),
                FText(<<"a">>)>>
    /\ req.method = W_GET
    /\ out = <<"b">>

----------------------------------------------------------------------------
(* Files that cannot be opened.                                            *)

LayoutFrags(frags) == SelectSeq(frags, LAMBDA g : g.t = "layout")

\* whether the layouts declared from the file f on lead to a file that is
\* not there
RECURSIVE ChainBreaks(_)
ChainBreaks(f) ==
    \/ f \notin DOMAIN tmpl
    \/ \E n \in 1..Len(LayoutFrags(tmpl[f])) :
          ChainBreaks(LayoutPath(LayoutFrags(tmpl[f])[n].name))

\* the files of the chain from f on that are there, f first
RECURSIVE OpenedChain(_)
OpenedChain(f) ==
    IF f \notin DOMAIN tmpl THEN <<>>
    ELSE <<f>> \o (IF LayoutFrags(tmpl[f]) = <<>> THEN <<>>
                   ELSE OpenedChain(LayoutPath(LayoutFrags(tmpl[f])[1].name)))

\* the message of http.Error, n times over
RECURSIVE Times(_, _)
Times(b, n) == IF n = 0 THEN <<>> ELSE b \o Times(b, n - 1)

\* C23: when a <!layout path> of the requested file, or of a layout of its
\* chain at any depth, names a file that cannot be opened, parseHtexFile
\* gives no HtexFile: no walk of writeHtexFile is ever started, the answer
\* has status 500, and its body is the message of http.Error only (once per
\* file of the chain that was opened), no byte of the page or of a layout.
\* Without such a <!layout> the request never fails this way.
C23_LayoutFailureFatal ==
    /\ ChainBreaks(target) =>
          /\ pc \in {"parse", "failed"}
          /\ hfTop = <<>>
          /\ rstack = <<>>
          /\ pc = "parse" => (out = <<>> /\ status = 0)
          /\ pc = "failed" =>
                /\ status = 500
                /\ hdr = CT_plain
                /\ out = Times(MSG_500, Len(OpenedChain(target)))
    /\ pc = "failed" => ChainBreaks(target)

\* the second layout above the page names a file that is not there
C23_Witness ==
    /\ pc = "failed"
    /\ OpenedChain(target) = <<P_page, LPath(1), LPath(2)>>
    /\ tmpl[LPath(2)] = <<FLayout(P_nope)>> \o Ex_layout
    /\ status = 500
    /\ out = MSG_500 \o MSG_500 \o MSG_500

\* the page itself names it
C23_WitnessPage ==
    /\ pc = "failed"
    /\ OpenedChain(target) = <<P_page>>
    /\ status = 500
    /\ out = MSG_500

\* <!include-raw path>, <!include-escaped path>, <!include-markdown path>
FInclude(kind, path) ==
    Frag(kind,
         (IF kind = "IncludeRaw" THEN T_inclRaw
          ELSE IF kind = "IncludeEscaped" THEN T_inclEsc ELSE T_inclMd)
         \o SP \o path \o T_close,
         path, <<>>)

P_i     == <<"/","i">>
P_xHtex == <<"/","x",".","h","t","e","x">>
P_x     == <<"/","x">>

\* what the included file holds: markup, an ampersand and a tag
W_incl == <<"<","b",">","&">> \o T_url \o T_close

\* text and includes of the file /i, by a relative and by a rooted path, and
\* of a file that is not there
V_include ==
    {<<FText(<<"a">>)>>, <<FText(<<" ","b">>)>>,
     <<FInclude("IncludeRaw", Tail(P_i))>>,
     <<FInclude("IncludeEscaped", P_i)>>,
     <<FInclude("IncludeMarkdown", Tail(P_i))>>,
     <<FInclude("IncludeRaw", Tail(P_nope))>>}

\* a content root: the page /p.htex of text and includes, the page /c.htex
\* under the layout /l.htex, the file /x.htex cut short inside "<!--", and
\* the file /i
OpenSite(body) ==
    (P_pHtex :> body) @@
    (P_cHtex :> <<FLayout(Tail(P_lHtex)), FText(<<"c">>)>>) @@
    (P_lHtex :> <<FText(<<"a">>), FContent>>) @@
    (P_xHtex :> <<FRaw(<<"<","!","-">>)>>) @@
    (P_i :> <<FRaw(W_incl)>>)

OpenPaths == {P_page, P_c, P_x, P_i, P_nope}

\* the page is made of up to MaxFrags units when it is the page asked for;
\* any of /p.htex, /l.htex and /i may be a file that does not open
OpenInit ==
    /\ \E us \in SeqsUpTo(V_include, MaxFrags), u \in OpenPaths :
          /\ u # P_page => us = <<>>
          /\ tmpl = OpenSite(Flatten(us))
          /\ req = RequestTo(W_GET, u, <<>>, <<>>)
    /\ fs = [f \in DOMAIN tmpl |-> SrcBytes(tmpl[f])]
    /\ noread \in SUBSET {P_pHtex, P_lHtex, P_i}
    /\ walk = NoWalk
    /\ calls = <<>>
    /\ logw = NoLog
    /\ logged = <<>>
    /\ keep = FALSE
    /\ target = <<>>
    /\ pc = "route"
    /\ pstack = <<>>
    /\ rstack = <<>>
    /\ hfTop = <<>>
    /\ out = <<>>
    /\ status = 0
    /\ hdr = ""
    /\ chunk = 0

OpenSpec == OpenInit /\ [][OpenNext]_vars

\* the .htex file the router chose for the request, <<>> when it chose none
ChosenSource ==
    IF Resolve(fs, req.path).kind \in {"dynamic", "wildcard"}
    THEN Resolve(fs, req.path).fn ELSE <<>>

\* C24 (as worded): when the .htex file the router chose cannot be opened,
\* the request is answered with a status of the 500 class.
C24_SourceFailureIs500 ==
    (pc = "done" /\ ChosenSource # <<>> /\ ~CanOpen(ChosenSource)) =>
        status >= 500

\* what a file of text and include fragments is to write: an include writes
\* the named file as it is, escaped, or through markdown, and nothing when
\* the file does not read
RECURSIVE ExpectedIncludes(_)
ExpectedIncludes(frags) ==
    IF frags = <<>> THEN <<>>
    ELSE LET g == Head(frags)
             fn == LayoutPath(g.name)
         IN  (IF g.t = "text" THEN g.b
              ELSE IF ~CanOpen(fn) THEN <<>>
              ELSE IF g.t = "IncludeRaw" THEN fs[fn]
              ELSE IF g.t = "IncludeEscaped" THEN EscapeString(fs[fn])
              ELSE markdownToHtml(fs[fn]))
             \o ExpectedIncludes(Tail(frags))

IncludeKinds == {"IncludeRaw", "IncludeEscaped", "IncludeMarkdown"}

IncludeFrags(frags) == SelectSeq(frags, LAMBDA g : g.t \in IncludeKinds)

\* C25: in a file of text and include tags, an include of a file that does
\* not read (it is not there, or may not be read) writes nothing and the
\* elements after it are written as ever, the answer being a 200; an
\* include of a file that reads writes it where the tag stands, include-raw
\* byte for byte (a tag in it is so many bytes), include-escaped with
\* html.EscapeString applied.  Each tag parses to one element of its kind
\* that holds the path.
C25_IncludeFailureIsSilent ==
    (target = P_pHtex /\ KindsOf(Page) \subseteq IncludeKinds \cup {"text"}) =>
        /\ ~Crashed
        /\ pc = "done" /\ hfTop # <<>> =>
              /\ out = ExpectedIncludes(Page)
              /\ status = 200
              /\ SelectSeq(hfTop[1].elems, LAMBDA e : e.kind \in IncludeKinds)
                    = [n \in 1..Len(IncludeFrags(Page)) |->
                          Elem(IncludeFrags(Page)[n].t, IncludeFrags(Page)[n].name, <<>>)]

\* /i may not be read: "a<!include-raw i> b<!include-escaped /i>" is "a b"
C25_Witness ==
    /\ pc = "done"
    /\ target = P_pHtex
    /\ P_i \in noread
    /\ Page = <<FText(<<"a">>), FInclude("IncludeRaw", Tail(P_i)), FText(<<" ","b">>)>>
    /\ out = <<"a"," ","b">>
    /\ status = 200

\* /i reads: raw it is written as it is, escaped with its markup escaped
C25_WitnessReads ==
    /\ pc = "done"
    /\ target = P_pHtex
    /\ P_i \notin noread
    /\ Page = <<FInclude("IncludeRaw", Tail(P_i)), FText(<<"a">>),
                FInclude("IncludeEscaped", P_i)>>
    /\ out = W_incl \o <<"a">> \o EscapeString(W_incl)

\* the file is not there
C25_WitnessMissing ==
    /\ pc = "done"
    /\ target = P_pHtex
    /\ Page = <<FInclude("IncludeRaw", Tail(P_nope)), FText(<<"a">>)>>
    /\ out = <<"a">>

----------------------------------------------------------------------------
(* Tags that are cut short, and tags with a name that is not known.        *)

\* b ends in a tag cut short at n: "<!" and a name that begins with a
\* letter, no "<!" before it and no ">" after it
TruncatedTagAt(b, n) ==
    /\ n + 2 <= Len(b)
    /\ b[n] = "<" /\ b[n+1] = "!"
    /\ \E k \in 1..26 : LowerLetters[k] = b[n+2]
    /\ ~HasTagStart(SubSeq(b, 1, n))
    /\ \A m \in n..Len(b) : b[m] # ">"

IsSuffix(a, b) == Len(a) <= Len(b) /\ SubSeq(b, Len(b) - Len(a) + 1, Len(b)) = a

\* C26 (as worded): a file that ends in a tag cut short, "<!name ..." with
\* no ">" before the end, is answered without error and the bytes of the
\* tag are the end of the answer, as text.
C26_TruncatedTagIsText ==
    \A n \in 1..Len(fs[target]) :
        TruncatedTagAt(fs[target], n) =>
            /\ ~Crashed
            /\ pc = "done" =>
                  IsSuffix(SubSeq(fs[target], n, Len(fs[target])), out)

\* the fragments of a file less the tags the parser does not know
Known(frags) == SelectSeq(frags, LAMBDA g : g.t # "unknown")

HasUnknown(frags) == \E n \in 1..Len(frags) : frags[n].t = "unknown"

NonText(elems) == SelectSeq(elems, LAMBDA e : e.kind # "Text")

\* C27 (as worded): in a file of text, <!data> tags and tags with a name the
\* parser does not know, such a tag gives no element and no output and is
\* no error, and what follows its ">" parses as if the tag were not there:
\* the elements that are not text, the text of the Text elements and the
\* answer are those of the file without the unknown tags.
C27_UnknownTagIsAbsent ==
    (KindsOf(Page) \subseteq {"text", "data", "unknown"} /\ HasUnknown(Page)) =>
        /\ ~Crashed
        /\ pc = "done" =>
              /\ NonText(hfTop[1].elems) = NonText(ExpectedElems(Known(Page), <<>>))
              /\ TextOf(hfTop[1].elems) = BytesOfKind(Page, "text")
              /\ out = ExpectedTags(Known(Page), req)

----------------------------------------------------------------------------
(* Layouts that name themselves, or a file of their own chain.             *)

\* the files of a page under d layouts, the outermost of which names the
\* file back, a file of the chain (the page, or one of the layouts)
CycleFiles(d, back) ==
    ChainFiles(d, <<FText(<<"c">>)>>, [n \in 1..d |-> Ex_layout], <<FLayout(back)>>)

InitCycle ==
    \E d \in 0..MaxChain :
        \E back \in {P_page} \cup {LPath(n) : n \in 1..d} :
            /\ tmpl = CycleFiles(d, back)
            /\ target = P_page
            /\ keep = FALSE
            /\ req = Request(W_GET, <<>>)

\* pages whose layouts loop, beside pages alone and under chains that end
CycleInit ==
    /\ \/ InitCycle
       \/ InitText
       \/ InitChain
       \/ InitBrokenChain
    /\ fs = [f \in DOMAIN tmpl |-> SrcBytes(tmpl[f])]
    /\ chunk = 0
    /\ noread = {}
    /\ walk = NoWalk
    /\ calls = <<>>
    /\ logw = NoLog
    /\ logged = <<>>
    /\ pc = "parse"
    /\ pstack = <<Frame(target, fs[target])>>
    /\ rstack = <<>>
    /\ hfTop = <<>>
    /\ out = <<>>
    /\ status = 0
    /\ hdr = CT_html

CycleNext ==
    \/ ParseExhausted
    \/ Next

CycleSpec == CycleInit /\ [][CycleNext]_vars

\* C28 (as worded): whatever the <!layout> tags of the files name, a file
\* itself or a file of its own chain included, parsing comes to an end with
\* a chain of layouts that is finite and without a loop: no parseHtexFile
\* is ever called for a file whose parse is still under way, and the calls
\* never use up the stack or the open files.
C28_LayoutChainAcyclic ==
    /\ \A m \in 1..Len(pstack), n \in 1..Len(pstack) :
          m # n => pstack[m].fn # pstack[n].fn
    /\ pc # "exhausted"

----------------------------------------------------------------------------
(* Running to the end: one file with no layout, parsed and rendered.       *)

\* text, tags with and without arguments, and comments, whole and cut short
V_term ==
    {<<FText(<<"a">>)>>, <<FText(<<" ","c">>)>>,
     <<FUrl>>, <<FData(W_x)>>, <<FUnknown(W_foo, <<>>)>>,
     <<FComment(T_comment \o <<" ","c"," ","-","-",">">>)>>,
     <<FComment(T_comment)>>}

InitTerm ==
    \E us \in SeqsUpTo(V_term, MaxFrags), k \in BOOLEAN :
        /\ tmpl = OnePage(Flatten(us))
        /\ target = P_page
        /\ keep = k
        /\ req = Request(W_GET, <<>>)

TermInit ==
    /\ \/ InitText
       \/ InitTerm
    /\ fs = [f \in DOMAIN tmpl |-> SrcBytes(tmpl[f])]
    /\ chunk = 0
    /\ noread = {}
    /\ walk = NoWalk
    /\ calls = <<>>
    /\ logw = NoLog
    /\ logged = <<>>
    /\ pc = "parse"
    /\ pstack = <<Frame(target, fs[target])>>
    /\ rstack = <<>>
    /\ hfTop = <<>>
    /\ out = <<>>
    /\ status = 0
    /\ hdr = CT_html

\* the steps of a file with no layout
TermNext ==
    \/ ParseStep
    \/ ParseDone
    \/ ParsePanic
    \/ RenderStep
    \/ RenderDone

\* the handler runs on for as long as it has a step to take
TermSpec == TermInit /\ [][TermNext]_vars /\ WF_vars(TermNext)

\* a turn of the parse loop that leaves the parser where it was: the Scanner
\* hands out a token with advance 0 and no error, and the loop asks again
NoAdvance ==
    /\ pc = "parse"
    /\ ParseIter(Top(pstack), keep).kind = "continue"
    /\ ParseIter(Top(pstack), keep).f = Top(pstack)

\* C29 (as worded): the parse and render of one file with no layout, whatever
\* its bytes and with comments kept or not, comes to an end: every turn of the
\* parse loop moves the parser on, so that no token is handed out again and
\* again without the Scanner advancing, and the handler ends done or failed.
C29_RunsToCompletion ==
    /\ ~NoAdvance
    /\ pc \in {"parse", "render", "done", "panicked"}

----------------------------------------------------------------------------
(* The walk over the content root: GenerateStaticContent, and ScanFiles    *)
(* as the README gives it.  A file name fn is written from the content     *)
(* root ("/a/index.htex"), as fullFn[len(h.localRoot):] is for the         *)
(* absolute, clean root the command line passes; an output file is written *)
(* from outputDir in the same way.                                         *)

N_index == <<"i","n","d","e","x">>
E_htex  == <<".","h","t","e","x">>
N_indexHtml == N_index \o <<".","h","t","m","l">>

\* "if queryLen >= 6 && query[queryLen-6:] == "/index" { query =
\* query[0 : queryLen-5] }"
CollapseIndex_anyIndex(query) ==
    IF Len(query) >= 5 /\ Slice(query, Len(query) - 5, Len(query)) = N_index
    THEN Slice(query, 0, Len(query) - 5)
    ELSE query

CollapseIndex(query) ==
    IF Len(query) >= 6 /\ Slice(query, Len(query) - 6, Len(query)) = <<"/">> \o N_index
    THEN Slice(query, 0, Len(query) - 5)
    ELSE query

\* ScanFiles: "query = fn[:len(fn)-len(ext)]" and the collapse
ScanQuery(fn) == CollapseIndex(Slice(fn, 0, Len(fn) - Len(Ext(fn))))

\* GenerateStaticContent: "query = "/" + fn[:len(fn)-len(ext)]" and the collapse
GenQuery(fn) == CollapseIndex(<<"/">> \o Slice(fn, 0, Len(fn) - Len(Ext(fn))))

\* path.Clean of a rooted path with no "." or ".." element: one '/' for
\* every run of them, none at the end
RECURSIVE CleanOn(_, _)
CleanOn(p, acc) ==
    IF p = <<>>
    THEN IF Len(acc) > 1 /\ acc[Len(acc)] = "/" THEN SubSeq(acc, 1, Len(acc) - 1) ELSE acc
    ELSE IF Head(p) = "/" /\ acc # <<>> /\ acc[Len(acc)] = "/"
    THEN CleanOn(Tail(p), acc)
    ELSE CleanOn(Tail(p), Append(acc, Head(p)))

\* filepath.Join(outputDir, a, b), written from outputDir
JoinOutput(a, b) == CleanOn(<<"/">> \o a \o <<"/">> \o b, <<>>)

\* the outputFn of GenerateStaticContent for the file fn
outputFn(fn) ==
    IF Ext(fn) = E_htex
    THEN JoinOutput(GenQuery(fn), N_indexHtml)
    ELSE JoinOutput(fn, <<>>)

\* "strings.HasPrefix(fn, "/.") && !strings.HasPrefix(fn, "/.well-known")"
SkipsDir(fn) ==
    /\ HasPrefix(fn, <<"/", ".">>)
    /\ ~HasPrefix(fn, <<"/",".","w","e","l","l","-","k","n","o","w","n">>)

Entry(fn, isDir) == [fn |-> fn, dir |-> isDir]

\* a content root, in the order filepath.Walk visits it: a directory before
\* what it holds, the names of one directory in byte order
ScanTree ==
    << Entry(<<>>, TRUE),
       Entry(<<"/",".","g","i","t">>, TRUE),
       Entry(<<"/",".","g","i","t","/","c">> \o E_htex, FALSE),
       Entry(<<"/">> \o E_htex, FALSE),
       Entry(<<"/",".","w","e","l","l","-","k","n","o","w","n">>, TRUE),
       Entry(<<"/",".","w","e","l","l","-","k","n","o","w","n","/","k",".","t","x","t">>, FALSE),
       Entry(<<"/","a">>, TRUE),
       Entry(<<"/","a","/",".","h">>, TRUE),
       Entry(<<"/","a","/",".","h","/","s">> \o E_htex, FALSE),
       Entry(<<"/","a","/">> \o N_index \o E_htex, FALSE),
       Entry(<<"/","a","/","q",".","H","T","E","X">>, FALSE),
       Entry(<<"/">> \o N_index, FALSE),
       Entry(<<"/">> \o N_index \o E_htex, FALSE),
       Entry(<<"/">> \o N_indexHtml, FALSE),
       Entry(<<"/","p">> \o E_htex, FALSE),
       Entry(<<"/","x">> \o N_index \o E_htex, FALSE) >>

ScanFileNames == {ScanTree[n].fn : n \in {m \in 1..Len(ScanTree) : ~ScanTree[m].dir}}

MaxScan == 3   \* most files in a content root that is walked

\* the entries of ScanTree a content root with the files F is made of: the
\* files, and the directories that hold one of them
TreeOf(F) ==
    LET Kept(e) == IF e.dir
                   THEN \E f \in F : HasPrefix(f, e.fn \o <<"/">>)
                   ELSE e.fn \in F
    IN  SelectSeq(ScanTree, Kept)

ScanInit ==
    /\ keep = FALSE
    /\ req = Request(W_GET, <<>>)
    /\ target = <<>>
    /\ chunk = 0
    /\ noread = {}
    /\ pc = "walk"
    /\ pstack = <<>>
    /\ rstack = <<>>
    /\ hfTop = <<>>
    /\ out = <<>>
    /\ status = 0
    /\ hdr = CT_html
    /\ calls = <<>>
    /\ logw = NoLog
    /\ logged = <<>>
    /\ \E F \in SUBSET ScanFileNames, g \in {"ScanFiles", "GenerateStaticContent"} :
        /\ F # {}
        /\ Cardinality(F) <= MaxScan
        /\ walk = [fun |-> g, tree |-> TreeOf(F), todo |-> TreeOf(F)]
        /\ tmpl = [f \in F |-> <<FText(<<"a">>)>>]
        /\ fs = [f \in F |-> <<"a">>]

\* the walk function on a directory it goes into: "return nil"
WalkDir ==
    /\ pc = "walk"
    /\ walk.todo # <<>>
    /\ Head(walk.todo).dir
    /\ ~SkipsDir(Head(walk.todo).fn)
    /\ walk' = [walk EXCEPT !.todo = Tail(@)]
    /\ UNCHANGED <<logw, logged, calls, noread, chunk, fs, tmpl, keep, req, target, pc, pstack, rstack, hfTop, out, status, hdr>>

\* the walk function on a hidden directory: "return filepath.SkipDir", and
\* Walk leaves out all the directory holds
WalkSkipDir ==
    /\ pc = "walk"
    /\ walk.todo # <<>>
    /\ Head(walk.todo).dir
    /\ SkipsDir(Head(walk.todo).fn)
    /\ LET d == Head(walk.todo).fn
           Outside(e) == ~HasPrefix(e.fn, d \o <<"/">>)
       IN  walk' = [walk EXCEPT !.todo = SelectSeq(Tail(@), Outside)]
    /\ UNCHANGED <<logw, logged, calls, noread, chunk, fs, tmpl, keep, req, target, pc, pstack, rstack, hfTop, out, status, hdr>>

Call(name, fullFn, arg) == [call |-> name, fullFn |-> fullFn, arg |-> arg]

\* what the walk function of g does with the file fn
VisitFile(g, fn) ==
    IF g = "ScanFiles"
    THEN IF Ext(fn) = E_htex
         THEN Call("dynamicQuery", fn, ScanQuery(fn))
         ELSE Call("staticFile", fn, fn)
    ELSE IF Ext(fn) = E_htex
         THEN Call("writeHtexFile", fn, outputFn(fn))
         ELSE Call("WriteFile", fn, outputFn(fn))

\* ScanFiles on a file: one of the two callbacks
ScanFile ==
    /\ pc = "walk"
    /\ walk.fun = "ScanFiles"
    /\ walk.todo # <<>>
    /\ ~Head(walk.todo).dir
    /\ calls' = Append(calls, VisitFile(walk.fun, Head(walk.todo).fn))
    /\ walk' = [walk EXCEPT !.todo = Tail(@)]
    /\ UNCHANGED <<logw, logged, noread, chunk, fs, tmpl, keep, req, target, pc, pstack, rstack, hfTop, out, status, hdr>>

\* "r := &http.Request{Method: "GET"}; r.URL = &url.URL{}"
GenRequest == RequestTo(W_GET, <<>>, <<>>, <<>>)

\* what parseHtexFile and writeHtexFile write to the ResponseWriter for the
\* file fn: the walk function calls them as ServeHTTP does, on fullFn
GenWritten(fn) ==
    SoloEnd([Handling(GenRequest) EXCEPT !.target = fn, !.pc = "parse",
                                        !.pstack = <<Frame(fn, fs[fn])>>],
            Readable, keep).out

\* pseudoResponseWriter.Write on a file that held prev: the first Write
\* opens it with O_WRONLY|O_CREATE, and the writes go over its first bytes
PseudoWrite(prev, buf) == buf \o SubSeq(prev, Len(buf) + 1, Len(prev))

\* the output directory o with the file name holding bytes
WithFile(o, name, bytes) ==
    [f \in (DOMAIN o) \cup {name} |-> IF f = name THEN bytes ELSE o[f]]

\* the output directory after the walk function has been on the file fn:
\* a .htex file is written through a pseudoResponseWriter, which opens the
\* output file at its first Write; another file is copied by os.WriteFile
GenOutput(o, fn) ==
    IF Ext(fn) = E_htex
    THEN IF GenWritten(fn) = <<>> THEN o
         ELSE WithFile(o, outputFn(fn),
                       PseudoWrite(IF outputFn(fn) \in DOMAIN o THEN o[outputFn(fn)]
                                   ELSE <<>>,
                                   GenWritten(fn)))
    ELSE WithFile(o, outputFn(fn), fs[fn])

\* GenerateStaticContent on a file: the file is rendered or copied to
\* outputFn; out is the output directory, file name to bytes
GenFile ==
    /\ pc = "walk"
    /\ walk.fun = "GenerateStaticContent"
    /\ walk.todo # <<>>
    /\ ~Head(walk.todo).dir
    /\ calls' = Append(calls, VisitFile(walk.fun, Head(walk.todo).fn))
    /\ out' = GenOutput(out, Head(walk.todo).fn)
    /\ walk' = [walk EXCEPT !.todo = Tail(@)]
    /\ UNCHANGED <<logw, logged, noread, chunk, fs, tmpl, keep, req, target, pc, pstack, rstack, hfTop, status, hdr>>

\* filepath.Walk returns
WalkDone ==
    /\ pc = "walk"
    /\ walk.todo = <<>>
    /\ pc' = "walked"
    /\ UNCHANGED <<logw, logged, walk, calls, noread, chunk, fs, tmpl, keep, req, target, pstack, rstack, hfTop, out, status, hdr>>

ScanNext ==
    \/ WalkDir
    \/ WalkSkipDir
    \/ ScanFile
    \/ GenFile
    \/ WalkDone

ScanSpec == ScanInit /\ [][ScanNext]_vars

\* the file has the extension ".htex"
IsHtexFile(fn) == HasSuffix(fn, E_htex)

\* the last element of a path
LastElem(b) == SubSeq(b, Len(Dir(b)) + 2, Len(b))

\* the URL of a .htex file: the name without the extension, and the
\* directory with its '/' if what is left names "index" in it
URLOf(fn) ==
    LET b == SubSeq(fn, 1, Len(fn) - Len(E_htex))
    IN  IF LastElem(b) = N_index THEN Dir(b) \o <<"/">> ELSE b

\* the files of the tree the walk has been on: not left to do, and in no
\* directory the walk leaves out
Visited ==
    LET Left == {walk.todo[n] : n \in 1..Len(walk.todo)}
        Dirs == {walk.tree[n] : n \in {m \in 1..Len(walk.tree) : walk.tree[m].dir}}
        Seen(e) == /\ ~e.dir
                   /\ e \notin Left
                   /\ ~\E d \in Dirs : SkipsDir(d.fn) /\ HasPrefix(e.fn, d.fn \o <<"/">>)
    IN  SelectSeq(walk.tree, Seen)

\* C30: the walk classifies every file it visits, directories apart, once:
\* ScanFiles invokes exactly one of its two callbacks for it, dynamicQuery if
\* and only if the extension is ".htex", with the URL that is the name without
\* the extension, a last element "index" (the whole element only) collapsed
\* to its directory's '/', and staticFile otherwise with the name from the
\* root; GenerateStaticContent classifies the same way, rendering a ".htex"
\* file to index.html under that URL and copying another to its own name.
C30_ScanClassifies ==
    /\ Len(calls) = Len(Visited)
    /\ \A n \in 1..Len(calls) :
        LET fn == Visited[n].fn
            c  == calls[n]
        IN  /\ c.fullFn = fn
            /\ walk.fun = "ScanFiles" =>
                /\ c.call \in {"dynamicQuery", "staticFile"}
                /\ c.call = "dynamicQuery" <=> IsHtexFile(fn)
                /\ c.call = "dynamicQuery" => c.arg = URLOf(fn)
                /\ c.call = "staticFile" => c.arg = fn
            /\ walk.fun = "GenerateStaticContent" =>
                /\ c.call \in {"writeHtexFile", "WriteFile"}
                /\ c.call = "writeHtexFile" <=> IsHtexFile(fn)
                /\ c.call = "writeHtexFile" =>
                       c.arg = (IF HasSuffix(URLOf(fn), <<"/">>) THEN URLOf(fn)
                                ELSE URLOf(fn) \o <<"/">>) \o N_indexHtml
                /\ c.call = "WriteFile" => c.arg = fn

\* ScanFiles is through with a root that holds /a/index.htex, /index.html
\* and /xindex.htex: "/a/", the file itself and "/xindex"
C30_Witness ==
    /\ pc = "walked"
    /\ walk.fun = "ScanFiles"
    /\ calls = << Call("dynamicQuery", <<"/","a","/">> \o N_index \o E_htex, <<"/","a","/">>),
                  Call("staticFile", <<"/">> \o N_indexHtml, <<"/">> \o N_indexHtml),
                  Call("dynamicQuery", <<"/","x">> \o N_index \o E_htex, <<"/","x">> \o N_index) >>

\* GenerateStaticContent is through with a root that holds /.git/c.htex,
\* /index.htex and /a/q.HTEX: the first is never visited
C30_WitnessGen ==
    /\ pc = "walked"
    /\ walk.fun = "GenerateStaticContent"
    /\ Len(walk.tree) = 6
    /\ calls = << Call("WriteFile", <<"/","a","/","q",".","H","T","E","X">>,
                       <<"/","a","/","q",".","H","T","E","X">>),
                  Call("writeHtexFile", <<"/">> \o N_index \o E_htex, <<"/">> \o N_indexHtml) >>

----------------------------------------------------------------------------
(* Elements under a method filter that does not let the request through:   *)
(* pages of up to MaxSkip units, alone or under one layout, with a file /i *)
(* to include.                                                             *)

MaxSkip == 2   \* most units in a page with method sections

V_skip ==
    {<<FMethod(W_post, <<>>)>>, <<FMethod(W_get, <<>>)>>, <<FMethod(W_any, <<>>)>>,
     <<FText(<<"q">>)>>, <<FSet(W_x, <<W_w>>)>>, <<FGet(W_x)>>,
     <<FInclude("IncludeRaw", P_i)>>, <<FContent>>}

SkipLayouts ==
    {<<FText(<<"a">>), FContent, FText(<<"b">>)>>,
     <<FMethod(W_post, <<>>), FContent, FInclude("IncludeEscaped", P_i),
       FMethod(W_any, <<>>), FText(<<"b">>)>>,
     <<FMethod(W_post, <<>>), FText(<<"a">>), FContent>>,
     <<FSet(W_x, <<W_v>>), FContent, FGet(W_x)>>,
     <<FContent, FMethod(W_post, <<>>), FSet(W_x, <<W_w>>), FGet(W_x)>>}

SkipInit ==
    /\ \E us \in SeqsUpTo(V_skip, MaxSkip), d \in 0..1, m \in {W_GET, W_POST} :
        \E lb \in [1..d -> SkipLayouts] :
            /\ tmpl = ChainFiles(d, Flatten(us), lb, <<>>) @@ (P_i :> <<FRaw(W_incl)>>)
            /\ req = Request(m, <<>>)
    /\ target = P_page
    /\ keep = FALSE
    /\ fs = [f \in DOMAIN tmpl |-> SrcBytes(tmpl[f])]
    /\ chunk = 0
    /\ noread = {}
    /\ walk = NoWalk
    /\ calls = <<>>
    /\ logw = NoLog
    /\ logged = <<>>
    /\ pc = "parse"
    /\ pstack = <<Frame(target, fs[target])>>
    /\ rstack = <<>>
    /\ hfTop = <<>>
    /\ out = <<>>
    /\ status = 0
    /\ hdr = CT_html

\* the steps of a request whose files all open
SkipNext ==
    \/ ParseStep
    \/ ParseLayout
    \/ ParseReturn
    \/ ParseDone
    \/ RenderStep
    \/ RenderReturn
    \/ RenderDone

SkipSpec == SkipInit /\ [][SkipNext]_vars

\* the walk under way is at an element other than a Method one while
\* skipUntilNewMethod is set
AtSkippedElem ==
    /\ pc = "render"
    /\ rstack # <<>>
    /\ Top(rstack).i <= Len(Top(rstack).hf.elems)
    /\ Top(rstack).skipUntilNewMethod
    /\ Top(rstack).hf.elems[Top(rstack).i].kind # "Method"

\* C31: while skipping, an element that is not a Method one is passed over:
\* nothing is written, the variables stay as they are, the content
\* continuation is not called (no walk of the page begins), no file is read,
\* and the walk is at the next element, still skipping.
C31_SkippedUnprocessed ==
    /\ [](AtSkippedElem => WalkElem(Top(rstack), req, Readable).read = <<>>)
    /\ [][AtSkippedElem =>
            /\ out' = out
            /\ status' = status
            /\ rstack' = SetTop(rstack, [Top(rstack) EXCEPT !.i = @ + 1])]_vars

\* a layout that skipped its Content and its Include under GET is done: only
\* the text after <!method any> is written
C31_Witness ==
    /\ pc = "done"
    /\ req.method = W_GET
    /\ P_page \in DOMAIN tmpl /\ LPath(1) \in DOMAIN tmpl
    /\ tmpl[LPath(1)] = <<FMethod(W_post, <<>>), FContent, FInclude("IncludeEscaped", P_i),
                           FMethod(W_any, <<>>), FText(<<"b">>)>>
    /\ out = <<"b">>

\* a page that skipped a Set under GET: the Get after <!method any> finds no
\* variable
C31_WitnessSet ==
    /\ pc = "render"
    /\ AtSkippedElem
    /\ Top(rstack).hf.elems[Top(rstack).i].kind = "Set"

\* C32: skipUntilNewMethod belongs to the walk of one file.  Every walk
\* begins at its first element with skipping off, whatever the state of the
\* walk that called it; a walk that waits for its content continuation is
\* not skipping, and when the continuation returns it goes on as it was, so
\* that a page that ends while skipping does not hide what the layout holds
\* after its Content.
C32_SkippingIsLocal ==
    /\ [](\A n \in 1..(Len(rstack) - 1) : ~rstack[n].skipUntilNewMethod)
    /\ [][Len(rstack') > Len(rstack) =>
            Top(rstack').i = 1 /\ ~Top(rstack').skipUntilNewMethod]_vars
    /\ [][Len(rstack') < Len(rstack) /\ rstack' # <<>> => rstack' = Pop(rstack)]_vars

\* the page "<!method post>q" under the layout "a<!content>b", asked for by
\* GET: the page writes nothing and the layout writes both its texts
C32_Witness ==
    /\ pc = "done"
    /\ req.method = W_GET
    /\ LPath(1) \in DOMAIN tmpl
    /\ tmpl[LPath(1)] = <<FText(<<"a">>), FContent, FText(<<"b">>)>>
    /\ tmpl[P_page] = <<FLayout(LName(1)), FMethod(W_post, <<>>), FText(<<"q">>)>>
    /\ out = <<"a", "b">>

\* the walk of such a page has ended while skipping and the layout's walk
\* waits for it
C32_WitnessEnds ==
    /\ pc = "render"
    /\ Len(rstack) = 2
    /\ Top(rstack).i > Len(Top(rstack).hf.elems)
    /\ Top(rstack).skipUntilNewMethod

----------------------------------------------------------------------------
(* White space inside a tag: a tag written with one space before each of   *)
(* its words is set beside the same tag with a run of spaces, CR and LF in *)
(* the place of each of these spaces.                                      *)

WsRuns == {<<" ">>, <<" ", " ">>, <<"\n">>, <<"\r", "\n">>, <<" ", "\n">>}

\* the tags: the name token and the words after it
WsTags ==
    {<<T_get, <<W_x>>>>, <<T_set, <<W_x, W_v>>>>, <<T_set, <<W_x, W_v, W_w>>>>,
     <<T_data, <<W_x>>>>, <<T_query, <<W_id>>>>,
     <<T_method, <<W_get>>>>, <<T_method, <<W_get, W_id \o <<"=">> \o W_42>>>>,
     <<T_inclRaw, <<"i">>>>}

\* the words, each after its run, and the run before ">"
RECURSIVE WsWords(_, _)
WsWords(ws, seps) ==
    IF ws = <<>> THEN <<>>
    ELSE Head(seps) \o Head(ws) \o WsWords(Tail(ws), Tail(seps))

\* t is "tagSp" for a tag with white space before its ">", "tag" for one
\* without
FWs(t, name, args, seps, trail) ==
    Frag(t, name \o WsWords(args, seps) \o trail \o T_close, name, args)

\* the same tag with single spaces
WsPlain(g) ==
    g.name \o Words(g.args) \o (IF g.t = "tagSp" THEN SP ELSE <<>>) \o T_close

WsInit ==
    /\ \E tg \in WsTags, sp \in BOOLEAN, trail \in WsRuns :
        \E seps \in [1..Len(tg[2]) -> WsRuns] :
            tmpl = OnePage(<<FText(<<"a">>),
                             FWs(IF sp THEN "tagSp" ELSE "tag", tg[1], tg[2], seps,
                                 IF sp THEN trail ELSE <<>>),
                             FText(<<"b">>)>>)
    /\ target = P_page
    /\ keep = FALSE
    /\ req = Request(W_GET, <<>>)
    /\ fs = [f \in DOMAIN tmpl |-> SrcBytes(tmpl[f])]
    /\ chunk = 0
    /\ noread = {}
    /\ walk = NoWalk
    /\ calls = <<>>
    /\ logw = NoLog
    /\ logged = <<>>
    /\ pc = "parse"
    /\ pstack = <<Frame(target, fs[target])>>
    /\ rstack = <<>>
    /\ hfTop = <<>>
    /\ out = <<>>
    /\ status = 0
    /\ hdr = CT_html

WsNext ==
    \/ ParseStep
    \/ ParseDone
    \/ RenderStep
    \/ RenderPanic
    \/ RenderDone

WsSpec == WsInit /\ [][WsNext]_vars

\* parseHtexScanner run to its end on a file with no layout: the elements
RECURSIVE ParseAllOn(_, _)
ParseAllOn(r, k) ==
    IF r.kind = "continue" THEN ParseAllOn(ParseIter(r.f, k), k) ELSE r.f.elems

ParseAll(fn, content, k) == ParseAllOn(ParseIter(Frame(fn, content), k), k)

\* the file with its tag written with single spaces
WsPlainFile ==
    LET g == tmpl[P_page] IN g[1].b \o WsPlain(g[2]) \o g[3].b

\* C33 (as worded): the tag parses into the same element, and the file into
\* the same elements after it, whatever run of spaces, CR and LF stands for a
\* single space between the tag name and the first word, between two words,
\* or before the closing ">".
C33_WhitespaceInsensitive ==
    hfTop # <<>> => hfTop[1].elems = ParseAll(P_page, WsPlainFile, keep)

----------------------------------------------------------------------------
(* The bytes the split function reads of the buffer it is given.           *)

\* C34 (as worded): whatever the file and however it is cut by the reads, the
\* split function reads no byte at or past the end of the buffer it is
\* given, so no call ends in an index out of range, buffers that end soon
\* after "<!" included; and a synthetic ">" is pending only while the
\* buffer holds a byte to give for it.
C34_ReadsInsideBuffer ==
    /\ pc # "panicked"
    /\ (pc = "parse" /\ Top(pstack).sc.tz.closingHtexElem) =>
           Top(pstack).sc.start < Top(pstack).sc.end

----------------------------------------------------------------------------
(* The verbose server: NewHtex makes one LogHtexHandler, and net/http      *)
(* calls its ServeHTTP in a goroutine of its own for each request.  The    *)
(* handler keeps the logResponseWriter of the request in its field w and   *)
(* hands &h.w to Htex.ServeHTTP, so that every Write and WriteHeader goes  *)
(* to the ResponseWriter h.w.w names when it is made.  The accesses to h.w *)
(* are not synchronised: the two stores of "h.w = logResponseWriter{w: w,  *)
(* code: 200}" are taken in either order, with steps of other calls        *)
(* between them.                                                           *)

LogRequests ==
    {RequestTo(W_GET, P_page, << <<W_id, W_7>> >>, <<>>),
     RequestTo(W_GET, P_c, <<>>, <<>>),
     RequestTo(W_GET, P_nope, <<>>, <<>>)}

LogInit ==
    /\ tmpl = ConcSite
    /\ fs = [f \in DOMAIN tmpl |-> SrcBytes(tmpl[f])]
    /\ keep = FALSE
    /\ req \in [Reqs -> LogRequests]
    /\ target = [i \in Reqs |-> <<>>]
    /\ pc = [i \in Reqs |-> "start"]
    /\ pstack = [i \in Reqs |-> <<>>]
    /\ rstack = [i \in Reqs |-> <<>>]
    /\ hfTop = [i \in Reqs |-> <<>>]
    /\ out = [i \in Reqs |-> <<>>]
    /\ status = [i \in Reqs |-> 0]
    /\ hdr = [i \in Reqs |-> ""]
    /\ chunk = 0
    /\ noread = {}
    /\ walk = NoWalk
    /\ calls = <<>>
    /\ logw = NoLog
    /\ logged = [i \in Reqs |-> 0]

\* "h.w = logResponseWriter{w: w, code: 200}": the store of the field w
LogStoreW(i) ==
    /\ pc[i] \in {"start", "startCode"}
    /\ logw' = [logw EXCEPT !.w = i]
    /\ pc' = [pc EXCEPT ![i] = IF pc[i] = "start" THEN "startW" ELSE "route"]
    /\ UNCHANGED <<logged, walk, calls, noread, chunk, fs, tmpl, keep, req, target, pstack, rstack, hfTop, out, status, hdr>>

\* the store of the field code
LogStoreCode(i) ==
    /\ pc[i] \in {"start", "startW"}
    /\ logw' = [logw EXCEPT !.code = 200]
    /\ pc' = [pc EXCEPT ![i] = IF pc[i] = "start" THEN "startCode" ELSE "route"]
    /\ UNCHANGED <<logged, walk, calls, noread, chunk, fs, tmpl, keep, req, target, pstack, rstack, hfTop, out, status, hdr>>

\* the step new of the call for request i, begun from a response with
\* nothing written: it called WriteHeader itself (http.NotFound, http.Error,
\* http.ServeFile)
CallsWriteHeader(old, new) ==
    \/ old.pc = "route" /\ new.status # 0
    \/ new.pc = "failed"

\* what the call for request i holds, before a response with nothing
\* written but the headers of the writer j
LogView(i, j) == [RecOf(i) EXCEPT !.out = <<>>, !.status = 0, !.hdr = hdr[j]]

\* the call for request i takes the step new and its writes go to the
\* ResponseWriter of request j: logResponseWriter.Write and WriteHeader
LogStepOn(i, j, old, new) ==
    /\ req' = [req EXCEPT ![i] = new.req]
    /\ target' = [target EXCEPT ![i] = new.target]
    /\ pc' = [pc EXCEPT ![i] = new.pc]
    /\ pstack' = [pstack EXCEPT ![i] = new.pstack]
    /\ rstack' = [rstack EXCEPT ![i] = new.rstack]
    /\ hfTop' = [hfTop EXCEPT ![i] = new.hfTop]
    /\ out' = [out EXCEPT ![j] = @ \o new.out]
    /\ status' = [status EXCEPT ![j] =
                     IF @ # 0 THEN @
                     ELSE IF CallsWriteHeader(old, new) THEN new.status
                     ELSE IF new.out # <<>> THEN 200
                     ELSE 0]
    /\ hdr' = [hdr EXCEPT ![j] = IF status[j] = 0 THEN new.hdr ELSE @]
    /\ logw' = IF CallsWriteHeader(old, new) THEN [logw EXCEPT !.code = new.status]
               ELSE logw
    /\ UNCHANGED <<logged, walk, calls, noread, chunk, fs, tmpl, keep>>

\* a step of Htex.ServeHTTP for request i while the writer h.w names is that
\* of a request net/http has not finished
LogStep(i) ==
    /\ pc[i] \in {"route", "parse", "render"}
    /\ logw.w \in Reqs
    /\ pc[logw.w] # "logged"
    /\ LogStepOn(i, logw.w, LogView(i, logw.w), Advance(LogView(i, logw.w), fs, keep))

\* the same while h.w names the writer of a request that is over: the call
\* goes on with its writes lost, or it ends in a panic
LogStepLate(i) ==
    /\ pc[i] \in {"route", "parse", "render"}
    /\ logw.w \in Reqs
    /\ pc[logw.w] = "logged"
    /\ \/ /\ pc' = [pc EXCEPT ![i] = "panicked"]
          /\ UNCHANGED <<req, target, pstack, rstack, hfTop, out, status, hdr, logw>>
       \/ LET new == Advance(LogView(i, logw.w), fs, keep)
          IN  /\ req' = [req EXCEPT ![i] = new.req]
              /\ target' = [target EXCEPT ![i] = new.target]
              /\ pc' = [pc EXCEPT ![i] = new.pc]
              /\ pstack' = [pstack EXCEPT ![i] = new.pstack]
              /\ rstack' = [rstack EXCEPT ![i] = new.rstack]
              /\ hfTop' = [hfTop EXCEPT ![i] = new.hfTop]
              /\ UNCHANGED <<out, status, hdr, logw>>
    /\ UNCHANGED <<logged, walk, calls, noread, chunk, fs, tmpl, keep>>

\* Htex.ServeHTTP has returned: "log.Println(" -> response code", h.w.code,
\* ...)", and net/http finishes the response of the request, with the
\* status 200 if none was written
LogEnd(i) ==
    /\ pc[i] \in {"done", "failed"}
    /\ logged' = [logged EXCEPT ![i] = logw.code]
    /\ status' = [status EXCEPT ![i] = IF @ = 0 THEN 200 ELSE @]
    /\ pc' = [pc EXCEPT ![i] = "logged"]
    /\ UNCHANGED <<logw, walk, calls, noread, chunk, fs, tmpl, keep, req, target, pstack, rstack, hfTop, out, hdr>>

LogNext ==
    \E i \in Reqs :
        \/ LogStoreW(i)
        \/ LogStoreCode(i)
        \/ LogStep(i)
        \/ LogStepLate(i)
        \/ LogEnd(i)

LogSpec == LogInit /\ [][LogNext]_vars

\* C35 (as worded): with the verbose handler and requests handled together,
\* the response of a request holds what its own handling wrote and nothing
\* else, at every moment the first bytes of its answer when handled alone
\* and in the end all of it, and the code logged for the request is the
\* status of its own response.
C35_OwnWriter ==
    \A i \in Reqs :
        /\ IsPrefix(out[i], SoloEnd(Handling(req[i]), fs, keep).out)
        /\ logged[i] # 0 =>
              /\ out[i] = SoloEnd(Handling(req[i]), fs, keep).out
              /\ status[i] = SoloEnd(Handling(req[i]), fs, keep).status
              /\ logged[i] = status[i]

----------------------------------------------------------------------------
(* Static generation into an output directory that is not empty: the page  *)
(* /p.htex, the page /e.htex that writes nothing for GET, and the file     *)
(* /s.txt; out holds the output directory, file name to bytes.             *)

P_eHtex == <<"/","e",".","h","t","e","x">>
P_sTxt  == <<"/","s",".","t","x","t">>

GenTree ==
    << Entry(<<>>, TRUE), Entry(P_eHtex, FALSE), Entry(P_pHtex, FALSE),
       Entry(P_sTxt, FALSE) >>

\* what a file of the output directory held before: less than the new
\* output, or more
GenBefore == {<<"o">>, <<"o", "l", "d">>}

GenPages == {<<FText(<<"h", "i">>)>>, <<FText(<<"h">>), FGet(W_x)>>}

GenInit ==
    /\ \E pg \in GenPages :
          tmpl = (P_eHtex :> <<FMethod(W_post, <<>>), FText(<<"q">>)>>) @@
                 (P_pHtex :> pg) @@
                 (P_sTxt :> <<FRaw(<<"1">>)>>)
    /\ fs = [f \in DOMAIN tmpl |-> SrcBytes(tmpl[f])]
    /\ walk = [fun |-> "GenerateStaticContent", tree |-> GenTree, todo |-> GenTree]
    /\ \E D \in SUBSET {outputFn(P_eHtex), outputFn(P_pHtex), outputFn(P_sTxt)} :
          out \in [D -> GenBefore]
    /\ keep = FALSE
    /\ req = GenRequest
    /\ target = <<>>
    /\ chunk = 0
    /\ noread = {}
    /\ pc = "walk"
    /\ pstack = <<>>
    /\ rstack = <<>>
    /\ hfTop = <<>>
    /\ status = 0
    /\ hdr = ""
    /\ calls = <<>>
    /\ logw = NoLog
    /\ logged = <<>>

GenNext ==
    \/ WalkDir
    \/ GenFile
    \/ WalkDone

GenSpec == GenInit /\ [][GenNext]_vars

\* C36 (as worded): when GenerateStaticContent is through, the output file
\* of every .htex file of the content root holds exactly the bytes rendered
\* for it, whatever the output directory held before: a longer file at the
\* same place, and a render of no bytes, included.
C36_OutputIsRendered ==
    pc = "walked" =>
        \A f \in DOMAIN fs :
            Ext(f) = E_htex =>
                /\ outputFn(f) \in DOMAIN out
                /\ out[outputFn(f)] = GenWritten(f)

----------------------------------------------------------------------------
(* What the walk publishes and what the server serves.                     *)

\* C37 (as worded): the walk, of GenerateStaticContent or of ScanFiles,
\* neither renders nor copies nor hands to a callback a file whose path from
\* the content root has an element that begins with ".", at any depth and
\* be it the file's own name, /.well-known apart: the files ServeHTTP
\* answers 404 for as hidden.
C37_HiddenNotPublished ==
    \A n \in 1..Len(calls) : ~Hidden(calls[n].fullFn)

----------------------------------------------------------------------------
(* The tokenizer's insideHtexElem and the parser's.                        *)

\* C38 (as worded): once the tokenizer has given the ">" that closes a tag it
\* is outside a tag, whether the tag name was ended by a space and arguments
\* or by the ">" itself, and when the parser has taken that token the two
\* agree on being outside.
C38_OutsideAfterClose ==
    \A n \in 1..Len(pstack) :
        pstack[n].sc.token = T_close =>
            /\ ~pstack[n].sc.tz.insideHtexElem
            /\ pstack[n].nextToken =>
                  pstack[n].insideHtexElem = pstack[n].sc.tz.insideHtexElem

====
